---- MODULE Spec2Model ----
(***************************************************************************)
(* supabase-camel: the camelCase/snake_case query facade.                  *)
(*                                                                         *)
(* JavaScript strings are modelled as sequences of one-character strings,  *)
(* JavaScript values as tagged records (field t is the runtime type), and  *)
(* object identity as a ref number: a literal held by the caller has a     *)
(* ref >= 1, an object allocated by a conversion has ref 0.                *)
(***************************************************************************)
EXTENDS Integers, Sequences, FiniteSets, TLC

\* ------------------------------------------------------------------------
\* Bounds of the model
\* ------------------------------------------------------------------------
MaxLen == 3
MaxArgLen == 2
MaxObjs == 2
MaxProxies == 3
MaxAwaits == 1
MaxBuilders == 2
MaxChainLen == 2
MaxThens == 2
MaxRequests == 2
MaxWindow == 2
MaxTime == 3
MaxCalls == 4

\* ------------------------------------------------------------------------
\* Characters and strings
\* ------------------------------------------------------------------------
UpperLetters ==
  <<"A","B","C","D","E","F","G","H","I","J","K","L","M",
    "N","O","P","Q","R","S","T","U","V","W","X","Y","Z">>

LowerLetters ==
  <<"a","b","c","d","e","f","g","h","i","j","k","l","m",
    "n","o","p","q","r","s","t","u","v","w","x","y","z">>

Digits == {"0","1","2","3","4","5","6","7","8","9"}

IsUpper(c) == \E i \in 1..26 : UpperLetters[i] = c

IsLower(c) == \E i \in 1..26 : LowerLetters[i] = c

IsLetter(c) == IsUpper(c) \/ IsLower(c)

\* String.prototype.toLowerCase on one character
toLowerCase(c) ==
  IF IsUpper(c) THEN LowerLetters[CHOOSE i \in 1..26 : UpperLetters[i] = c] ELSE c

\* String.prototype.toUpperCase on one character
toUpperCase(c) ==
  IF IsLower(c) THEN UpperLetters[CHOOSE i \in 1..26 : LowerLetters[i] = c] ELSE c

\* String.prototype.includes
includes(s, sub) ==
  \E i \in 0..(Len(s) - Len(sub)) : SubSeq(s, i + 1, i + Len(sub)) = sub

\* All strings over an alphabet of length at most n
RECURSIVE StringsUpTo(_, _)
StringsUpTo(alphabet, n) ==
  IF n = 0 THEN {<< >>}
  ELSE LET shorter == StringsUpTo(alphabet, n - 1)
       IN  shorter \cup {Append(s, c) : s \in shorter, c \in alphabet}

\* ------------------------------------------------------------------------
\* JavaScript values
\* ------------------------------------------------------------------------
Undefined == [t |-> "undefined"]
Null == [t |-> "null"]
Num(n) == [t |-> "number", n |-> n]
Bool(b) == [t |-> "boolean", b |-> b]
Str(s) == [t |-> "string", s |-> s]
Sym(d) == [t |-> "symbol", d |-> d]
\* a plain object: own enumerable keys in insertion order
Obj(ref, kv) == [t |-> "object", ref |-> ref, kv |-> kv]
Arr(ref, items) == [t |-> "array", ref |-> ref, items |-> items]
\* an object whose prototype is not Object.prototype (Date, AbortSignal, ...)
Inst(cls, ref) == [t |-> "instance", cls |-> cls, ref |-> ref]

\* ------------------------------------------------------------------------
\* Case conversion
\* ------------------------------------------------------------------------
\* column.replace(/[A-Z]/gu, (letter) => `_${letter.toLowerCase()}`)
RECURSIVE replaceUpper(_)
replaceUpper(s) ==
  IF s = << >> THEN << >>
  ELSE IF IsUpper(Head(s))
       THEN <<"_", toLowerCase(Head(s))>> \o replaceUpper(Tail(s))
       ELSE <<Head(s)>> \o replaceUpper(Tail(s))

\* a plausible slip: the underscore is put after the capital
RECURSIVE replaceUpperAfter(_)
replaceUpperAfter(s) ==
  IF s = << >> THEN << >>
  ELSE IF IsUpper(Head(s))
       THEN <<toLowerCase(Head(s)), "_">> \o replaceUpperAfter(Tail(s))
       ELSE <<Head(s)>> \o replaceUpperAfter(Tail(s))

\* convertColumnToSnakeCase with that slip in its replace callback
convertColumnToSnakeCase_after(column) ==
  IF column.t = "symbol"
  THEN Str(<<"S","y","m","b","o","l","(">> \o column.d \o <<")">>)
  ELSE IF \/ column.s = <<"*">>
          \/ includes(column.s, <<"_">>)
          \/ includes(column.s, <<"(">>)
          \/ includes(column.s, <<")">>)
          \/ includes(column.s, <<".">>)
          \/ includes(column.s, <<"-", ">">>)
          \/ includes(column.s, <<":", ":">>)
       THEN column
       ELSE Str(replaceUpperAfter(column.s))

\* convertColumnToSnakeCase without the check for type casts
convertColumnToSnakeCase_noCast(column) ==
  IF column.t = "symbol"
  THEN Str(<<"S","y","m","b","o","l","(">> \o column.d \o <<")">>)
  ELSE IF \/ column.s = <<"*">>
          \/ includes(column.s, <<"_">>)
          \/ includes(column.s, <<"(">>)
          \/ includes(column.s, <<")">>)
          \/ includes(column.s, <<".">>)
          \/ includes(column.s, <<"-", ">">>)
       THEN column
       ELSE Str(replaceUpper(column.s))

\* convertColumnToSnakeCase(column: string | symbol): string
convertColumnToSnakeCase(column) ==
  IF column.t = "symbol"
  THEN Str(<<"S","y","m","b","o","l","(">> \o column.d \o <<")">>)
  ELSE IF \/ column.s = <<"*">>
          \/ includes(column.s, <<"_">>)
          \/ includes(column.s, <<"(">>)
          \/ includes(column.s, <<")">>)
          \/ includes(column.s, <<".">>)
          \/ includes(column.s, <<"-", ">">>)
          \/ includes(column.s, <<":", ":">>)
       THEN column
       ELSE Str(replaceUpper(column.s))

\* toBackingCase of @pixpilot/object: `_` before each uppercase letter that
\* is not at position 0, then lowercase
RECURSIVE toBackingFrom(_, _)
toBackingFrom(s, i) ==
  IF i > Len(s) THEN << >>
  ELSE IF IsUpper(s[i]) /\ i > 1
       THEN <<"_", toLowerCase(s[i])>> \o toBackingFrom(s, i + 1)
       ELSE <<toLowerCase(s[i])>> \o toBackingFrom(s, i + 1)

toBackingCase(s) == toBackingFrom(s, 1)

\* toCallerCase of @pixpilot/object: each `_` followed by a letter is deleted
\* and the letter uppercased
RECURSIVE toCallerCase(_)
toCallerCase(s) ==
  IF s = << >> THEN << >>
  ELSE IF Head(s) = "_" /\ Len(s) >= 2 /\ IsLetter(s[2])
       THEN <<toUpperCase(s[2])>> \o toCallerCase(Tail(Tail(s)))
       ELSE <<Head(s)>> \o toCallerCase(Tail(s))

\* the recursive key converter shared by keysToSnakeCase and keysToCamelCase:
\* plain objects and arrays are cloned with converted keys, null, undefined
\* and every other value are returned as they are
RECURSIVE convertKeys(_, _)
convertKeys(v, snake) ==
  IF v.t = "object"
  THEN Obj(0, [i \in 1..Len(v.kv) |->
                 <<IF snake THEN toBackingCase(v.kv[i][1])
                            ELSE toCallerCase(v.kv[i][1]),
                   convertKeys(v.kv[i][2], snake)>>])
  ELSE IF v.t = "array"
       THEN Arr(0, [i \in 1..Len(v.items) |-> convertKeys(v.items[i], snake)])
       ELSE v

keysToSnakeCase(v) == convertKeys(v, TRUE)

keysToCamelCase(v) == convertKeys(v, FALSE)

\* BaseFilterBuilder.convertColumn: Object.keys(keysToSnakeCase({ [column]: null }))[0]
convertColumn(column) == keysToSnakeCase(Obj(0, <<<<column, Null>>>>)).kv[1][1]

\* ------------------------------------------------------------------------
\* String literals used by the calls and envelopes below
\* ------------------------------------------------------------------------
c_userId == <<"u","s","e","r","I","d">>

c_createdAt == <<"c","r","e","a","t","e","d","A","t">>

c_userName == <<"u","s","e","r","N","a","m","e">>

c_isActive == <<"i","s","A","c","t","i","v","e">>

c_metaData == <<"m","e","t","a","D","a","t","a">>

c_innerKey == <<"i","n","n","e","r","K","e","y">>

c_foreignTable == <<"f","o","r","e","i","g","n","T","a","b","l","e">>

c_userPosts == <<"u","s","e","r","P","o","s","t","s">>

c_onConflict == <<"o","n","C","o","n","f","l","i","c","t">>

c_ignoreDuplicates == <<"i","g","n","o","r","e","D","u","p","l","i","c","a","t","e","s">>

c_count == <<"c","o","u","n","t">>

c_exact == <<"e","x","a","c","t">>

c_Ann == <<"A","n","n">>

c_boom == <<"b","o","o","m">>

c_message == <<"m","e","s","s","a","g","e">>

c_UserId == <<"U","s","e","r","I","d">>

s_user_id == <<"u","s","e","r","_","i","d">>

s_is_active == <<"i","s","_","a","c","t","i","v","e">>

s_meta_data == <<"m","e","t","a","_","d","a","t","a">>

s_inner_key == <<"i","n","n","e","r","_","k","e","y">>

s_error_code == <<"e","r","r","o","r","_","c","o","d","e">>

s_or_filter == <<"u","s","e","r","_","i","d",".","e","q",".","1">>

s_count_id == <<"c","o","u","n","t","(","i","d",")">>

s_json_path == <<"d","a","t","a","-",">","n","a","m","e">>

s_cast == <<"c","r","e","a","t","e","d","A","t",":",":","d","a","t","e">>

s_star == <<"*">>

s_col_list == <<"i","d",","," ","u","s","e","r","N","a","m","e">>

\* ------------------------------------------------------------------------
\* State
\* ------------------------------------------------------------------------
VARIABLES
  conv,          \* the converter harness: a field name and its conversions
  cacheProxies,  \* per db instance: options.cacheProxies === true
  objs,          \* the underlying client's objects (raw builders, promises)
  proxies,       \* the Proxy objects created so far: target and owning db
  proxyCache,    \* per db instance: the WeakMap from raw object to Proxy
  builders,      \* the explicit builder objects created so far
  pick,          \* the <<method, arguments>> the caller has prepared
  lastCall,      \* the latest call through a wrapper and what the underlying saw
  awaits,        \* the awaits started so far and how they settled
  chains,        \* two caller chains through the facade: calls made, stage, outcome
  handles,       \* per underlying object: the calls it received and its terminal's result
  server,        \* createServer: the configuration and the request being handled
  invocation,    \* FunctionsClient.invoke: the underlying behaviour and how invoke settles
  handling,      \* FunctionsClient.handleInvoke: the callbacks called and how it settles
  storage,       \* UserStorageManager: the operation under way and the storage calls made
  limiter        \* RateLimiter: the clock, the stored timestamps and the calls answered

vars == <<conv, cacheProxies, objs, proxies, proxyCache, builders, pick, lastCall, awaits,
          chains, handles, server, invocation, handling, storage, limiter>>

restVars == <<handling, storage, limiter>>

chainVars == <<chains, handles>>

facadeVars == <<cacheProxies, objs, proxies, proxyCache, builders, pick, lastCall, awaits>>

DBs == {1, 2}

EmptyMap == [x \in {} |-> 0]

\* ------------------------------------------------------------------------
\* Inputs of the environment: calls made by the caller, results produced by
\* the underlying client
\* ------------------------------------------------------------------------
Payload == Obj(2, <<<<c_userName, Str(c_Ann)>>, <<c_isActive, Bool(TRUE)>>>>)

NestedPayload == Obj(3, <<<<c_metaData, Obj(4, <<<<c_innerKey, Num(1)>>>>)>>,
                         <<c_createdAt, Inst("Date", 5)>>>>)

BulkPayload == Arr(6, <<Payload, NestedPayload>>)

UpsertOptions == Obj(7, <<<<c_onConflict, Str(c_userId)>>,
                         <<c_ignoreDuplicates, Bool(TRUE)>>,
                         <<c_count, Str(c_exact)>>>>)

OrderOptions == Obj(8, <<<<c_foreignTable, Str(c_userPosts)>>>>)

Signal == Inst("AbortSignal", 9)

\* <<method, arguments>> of the calls a caller makes on a facade
CallShapes ==
  { <<"eq", <<Str(c_userId), Num(1)>>>>,
    <<"eq", <<Str(c_UserId), Str(c_userId)>>>>,
    <<"order", <<Str(c_createdAt), OrderOptions>>>>,
    <<"select", << >>>>,
    <<"select", <<Str(s_star)>>>>,
    <<"select", <<Str(s_col_list)>>>>,
    <<"select", <<Str(s_count_id)>>>>,
    <<"select", <<Undefined, UpsertOptions>>>>,
    <<"or", <<Str(s_or_filter), OrderOptions>>>>,
    <<"order", <<Str(s_user_id)>>>>,
    <<"order", <<Str(s_json_path)>>>>,
    <<"order", <<Str(s_cast)>>>>,
    <<"insert", <<Payload>>>>,
    <<"insert", <<BulkPayload>>>>,
    <<"update", <<NestedPayload>>>>,
    <<"upsert", <<Payload, UpsertOptions>>>>,
    <<"upsert", <<BulkPayload, UpsertOptions>>>>,
    <<"abortSignal", <<Signal>>>>,
    <<"limit", <<Num(10), OrderOptions>>>>,
    <<"rollback", <<Bool(TRUE), Payload>>>>,
    <<"gt", <<Inst("Date", 5), BulkPayload>>>>,
    <<"is", <<Null, Str(c_isActive)>>>>,
    <<"eq", <<Sym(c_userId), Num(1)>>>>,
    <<"order", <<Sym(c_createdAt), Sym(c_userId)>>>> }

\* the keys of the properties a caller reads off a facade
PropKeys == { Str(c_count), Str(c_userId), Sym(c_userId), Sym(c_createdAt) }

\* result envelopes { data, error, count, status, statusText } of the
\* underlying terminal operation
Envelopes ==
  { [data |-> Arr(11, <<Obj(12, <<<<s_user_id, Str(c_Ann)>>, <<s_is_active, Bool(TRUE)>>>>)>>),
     error |-> Null, count |-> Null, status |-> Num(200), statusText |-> Str(<<"O","K">>)],
    [data |-> Obj(13, <<<<s_meta_data, Obj(14, <<<<s_inner_key, Num(1)>>>>)>>>>),
     error |-> Null, count |-> Num(1), status |-> Num(201), statusText |-> Str(<<"O","K">>)],
    [data |-> Null,
     error |-> Obj(15, <<<<c_message, Str(c_boom)>>, <<s_error_code, Num(1)>>>>),
     count |-> Null, status |-> Num(400), statusText |-> Str(c_boom)],
    [data |-> Null, error |-> Null, count |-> Num(0), status |-> Num(204),
     statusText |-> Str(<<"O","K">>)] }

\* what the underlying client throws or rejects with
Reasons == { Inst("Error", 21), Str(c_boom) }

\* ------------------------------------------------------------------------
\* createQueryProxy and the Proxy handler
\* ------------------------------------------------------------------------
\* createQueryProxy that forgets to look the object up in the cache
createQueryProxy_nolookup(queryBuilder, db) ==
  LET proxy == Len(proxies) + 1
  IN  [proxy |-> proxy,
       proxies |-> Append(proxies, [target |-> queryBuilder, db |-> db]),
       proxyCache |-> IF cacheProxies[db]
                      THEN [proxyCache EXCEPT ![db] = (queryBuilder :> proxy) @@ @]
                      ELSE proxyCache]

\* createQueryProxy that starts the cache afresh with each Proxy it stores
createQueryProxy_evict(queryBuilder, db) ==
  IF cacheProxies[db] /\ queryBuilder \in DOMAIN proxyCache[db]
  THEN [proxy |-> proxyCache[db][queryBuilder],
        proxies |-> proxies,
        proxyCache |-> proxyCache]
  ELSE LET proxy == Len(proxies) + 1
       IN  [proxy |-> proxy,
            proxies |-> Append(proxies, [target |-> queryBuilder, db |-> db]),
            proxyCache |-> IF cacheProxies[db]
                           THEN [proxyCache EXCEPT ![db] = (queryBuilder :> proxy)]
                           ELSE proxyCache]

\* createQueryProxy that takes any cached Proxy for the one of the object
createQueryProxy_anyCached(queryBuilder, db) ==
  IF cacheProxies[db] /\ DOMAIN proxyCache[db] # {}
  THEN [proxy |-> proxyCache[db][CHOOSE q \in DOMAIN proxyCache[db] : TRUE],
        proxies |-> proxies,
        proxyCache |-> proxyCache]
  ELSE LET proxy == Len(proxies) + 1
       IN  [proxy |-> proxy,
            proxies |-> Append(proxies, [target |-> queryBuilder, db |-> db]),
            proxyCache |-> IF cacheProxies[db]
                           THEN [proxyCache EXCEPT ![db] = (queryBuilder :> proxy) @@ @]
                           ELSE proxyCache]

\* createQueryProxy(queryBuilder, proxyCache): the Proxy returned, with the
\* Proxy objects and the cache as the call leaves them
createQueryProxy(queryBuilder, db) ==
  IF cacheProxies[db] /\ queryBuilder \in DOMAIN proxyCache[db]
  THEN [proxy |-> proxyCache[db][queryBuilder],
        proxies |-> proxies,
        proxyCache |-> proxyCache]
  ELSE LET proxy == Len(proxies) + 1
       IN  [proxy |-> proxy,
            proxies |-> Append(proxies, [target |-> queryBuilder, db |-> db]),
            proxyCache |-> IF cacheProxies[db]
                           THEN [proxyCache EXCEPT ![db] = (queryBuilder :> proxy) @@ @]
                           ELSE proxyCache]

\* the argument classifier that converts the argument at every position
processArg_everyIndex(arg, index) ==
  IF arg.t \notin {"null", "undefined"}
  THEN IF arg.t = "string" THEN convertColumnToSnakeCase(arg)
       ELSE IF arg.t \in {"object", "array"} THEN keysToSnakeCase(arg)
       ELSE arg
  ELSE arg

\* the argument classifier that looks at the second argument, not the first
processArg_indexOne(arg, index) ==
  IF index = 1 /\ arg.t \notin {"null", "undefined"}
  THEN IF arg.t = "string" THEN convertColumnToSnakeCase(arg)
       ELSE IF arg.t \in {"object", "array"} THEN keysToSnakeCase(arg)
       ELSE arg
  ELSE arg

\* the argument classifier that takes a symbol for a column name as well
processArg_symbols(arg, index) ==
  IF index = 0 /\ arg.t \notin {"null", "undefined"}
  THEN IF arg.t \in {"string", "symbol"} THEN convertColumnToSnakeCase(arg)
       ELSE IF arg.t \in {"object", "array"} THEN keysToSnakeCase(arg)
       ELSE arg
  ELSE arg

\* the argument classifier that treats only strings
processArg_stringsOnly(arg, index) ==
  IF index = 0 /\ arg.t = "string" THEN convertColumnToSnakeCase(arg) ELSE arg

\* the callback of args.map in the wrapped function (index counts from 0)
processArg(arg, index) ==
  IF index = 0 /\ arg.t \notin {"null", "undefined"}
  THEN IF arg.t = "string" THEN convertColumnToSnakeCase(arg)
       ELSE IF arg.t \in {"object", "array"} THEN keysToSnakeCase(arg)
       ELSE arg
  ELSE arg

processedArgs(args) == [i \in 1..Len(args) |-> processArg(args[i], i - 1)]

\* the envelope transformation that converts every field of the envelope
transformedResult_all(result) ==
  [f \in DOMAIN result |-> keysToCamelCase(result[f])]

\* { ...result, data: result.data != null ? keysToCamelCase(result.data) : null }
transformedResult(result) ==
  [result EXCEPT !.data = IF result.data.t \notin {"null", "undefined"}
                          THEN keysToCamelCase(result.data)
                          ELSE Null]

\* an interceptor that hands the underlying `then` its own rejection handler,
\* which wraps the reason in a new Error
rejected_wrapped(reason) == [k |-> "rejected", v |-> Inst("Error", 0)]

\* the interceptor hands the caller's onrejected to the underlying `then`
\* untouched: a rejection reaches the caller as the underlying made it
rejected(reason) == [k |-> "rejected", v |-> reason]

NoCall == [kind |-> "none"]

\* no chain has started
ChainsIdle ==
  /\ chains = << >>
  /\ handles = << >>

\* createServer has not been called
ServerIdle == server = [stage |-> "idle"]

\* invoke has not been called
InvokeIdle == invocation = [stage |-> "idle"]

\* FunctionsClient.handleInvoke, UserStorageManager and RateLimiter are not in use
RestIdle ==
  /\ handling = [stage |-> "idle"]
  /\ storage = [stage |-> "idle"]
  /\ limiter = [stage |-> "idle"]

NoPick == <<"", << >>>>

FacadeInit ==
  /\ cacheProxies \in [DBs -> BOOLEAN]
  /\ objs = << >>
  /\ proxies = << >>
  /\ proxyCache = [d \in DBs |-> EmptyMap]
  /\ builders = << >>
  /\ pick = NoPick
  /\ lastCall = NoCall
  /\ awaits = << >>
  /\ ChainsIdle
  /\ ServerIdle
  /\ InvokeIdle
  /\ RestIdle

\* supabaseClient.from(table): a new table handle, or one it returned before
ClientFrom(o) ==
  /\ o \in 1..(Len(objs) + 1)
  /\ o <= MaxObjs

\* CamelCaseDb.from(table) of the dynamic facade
From(db, o, thenable) ==
  /\ ClientFrom(o)
  /\ LET made == createQueryProxy(o, db)
     IN  /\ made.proxy <= MaxProxies
         /\ objs' = IF o > Len(objs) THEN Append(objs, [thenable |-> thenable]) ELSE objs
         /\ o <= Len(objs) => thenable = objs[o].thenable
         /\ proxies' = made.proxies
         /\ proxyCache' = made.proxyCache
         /\ lastCall' = [kind |-> "from", db |-> db, uobj |-> o, ret |-> made.proxy]
  /\ UNCHANGED <<chainVars, server, restVars, invocation, conv, cacheProxies, builders, pick, awaits>>

\* handler.get for a property whose value is not a function: obj[prop] is
\* read with the key as given and returned as is
GetProp(p, prop, value) ==
  /\ p \in 1..Len(proxies)
  /\ lastCall' = [kind |-> "get", proxy |-> p, prop |-> prop,
                  uobj |-> proxies[p].target, uprop |-> prop,
                  value |-> value, ret |-> value]
  /\ UNCHANGED <<chainVars, server, restVars, invocation, conv, cacheProxies, objs, proxies, proxyCache, builders, pick, awaits>>

\* the wrapped function returned by handler.get, called with args, when the
\* underlying method returns the raw object o (an old one or a new one)
CallObject(p, method, args, o) ==
  /\ p \in 1..Len(proxies)
  /\ o \in 1..(Len(objs) + 1)
  /\ o <= MaxObjs
  /\ LET obj == proxies[p].target
         made == createQueryProxy(o, proxies[p].db)
     IN  /\ made.proxy <= MaxProxies
         /\ objs' = IF o > Len(objs) THEN Append(objs, [thenable |-> TRUE]) ELSE objs
         /\ proxies' = made.proxies
         /\ proxyCache' = made.proxyCache
         /\ lastCall' = [kind |-> "call", via |-> "proxy", proxy |-> p,
                         method |-> method, args |-> args,
                         uobj |-> obj, umethod |-> method,
                         uargs |-> processedArgs(args),
                         ures |-> [k |-> "object", o |-> o],
                         ret |-> [k |-> "proxy", p |-> made.proxy]]
  /\ UNCHANGED <<chainVars, server, restVars, invocation, conv, cacheProxies, builders, pick, awaits>>

\* the wrapped function when the underlying method returns a value that is
\* not an object
CallValue(p, method, args, v) ==
  /\ p \in 1..Len(proxies)
  /\ lastCall' = [kind |-> "call", via |-> "proxy", proxy |-> p,
                  method |-> method, args |-> args,
                  uobj |-> proxies[p].target, umethod |-> method,
                  uargs |-> processedArgs(args),
                  ures |-> [k |-> "value", v |-> v],
                  ret |-> [k |-> "value", v |-> v]]
  /\ UNCHANGED <<chainVars, server, restVars, invocation, conv, cacheProxies, objs, proxies, proxyCache, builders, pick, awaits>>

\* the wrapped function when the underlying method throws
CallThrows(p, method, args, reason) ==
  /\ p \in 1..Len(proxies)
  /\ lastCall' = [kind |-> "call", via |-> "proxy", proxy |-> p,
                  method |-> method, args |-> args,
                  uobj |-> proxies[p].target, umethod |-> method,
                  uargs |-> processedArgs(args),
                  ures |-> [k |-> "throw", v |-> reason],
                  ret |-> [k |-> "throw", v |-> reason]]
  /\ UNCHANGED <<chainVars, server, restVars, invocation, conv, cacheProxies, objs, proxies, proxyCache, builders, pick, awaits>>

Pending == [k |-> "pending"]

\* `await proxy`: handler.get('then') and the call of what it returns with the
\* await's resolve and reject functions
Await(p, threw, reason) ==
  /\ p \in 1..Len(proxies)
  /\ Len(awaits) < MaxAwaits
  /\ LET obj == proxies[p].target
     IN  awaits' = Append(awaits,
           IF ~objs[obj].thenable
           THEN \* `then` is not a function: the await yields the proxy itself
                [via |-> "proxy", on |-> p, uobj |-> obj, thenCalls |-> 0,
                 under |-> Pending,
                 outcome |-> [k |-> "fulfilled", v |-> [t |-> "proxy", p |-> p]]]
           ELSE IF threw
           THEN \* value.call(obj, ...) throws
                [via |-> "proxy", on |-> p, uobj |-> obj, thenCalls |-> 1,
                 under |-> [k |-> "threw", v |-> reason],
                 outcome |-> [k |-> "rejected", v |-> reason]]
           ELSE [via |-> "proxy", on |-> p, uobj |-> obj, thenCalls |-> 1,
                 under |-> Pending, outcome |-> Pending])
  /\ UNCHANGED <<chainVars, server, restVars, invocation, conv, cacheProxies, objs, proxies, proxyCache, builders, pick, lastCall>>

\* the underlying terminal resolves: the async callback handed to the
\* underlying `then` runs and calls onfulfilled
Fulfil(a, result) ==
  /\ a \in 1..Len(awaits)
  /\ awaits[a].via = "proxy"
  /\ awaits[a].thenCalls = 1
  /\ awaits[a].under = Pending
  /\ awaits' = [awaits EXCEPT ![a].under = [k |-> "fulfilled", v |-> result],
                              ![a].outcome = [k |-> "fulfilled",
                                              v |-> transformedResult(result)]]
  /\ UNCHANGED <<chainVars, server, restVars, invocation, conv, cacheProxies, objs, proxies, proxyCache, builders, pick, lastCall>>

\* the underlying terminal rejects: it calls the onrejected it was handed,
\* which is the caller's
Reject(a, reason) ==
  /\ a \in 1..Len(awaits)
  /\ awaits[a].via = "proxy"
  /\ awaits[a].thenCalls = 1
  /\ awaits[a].under = Pending
  /\ awaits' = [awaits EXCEPT ![a].under = [k |-> "rejected", v |-> reason],
                              ![a].outcome = rejected(reason)]
  /\ UNCHANGED <<chainVars, server, restVars, invocation, conv, cacheProxies, objs, proxies, proxyCache, builders, pick, lastCall>>

\* ------------------------------------------------------------------------
\* The explicit builder: CamelCaseDb, CamelCaseTableQueryBuilder and
\* CamelCaseUpdateQueryBuilder
\* ------------------------------------------------------------------------
\* CamelCaseDb.from(table) of the explicit builder
XFrom(o) ==
  /\ ClientFrom(o)
  /\ Len(builders) < MaxBuilders
  /\ objs' = IF o > Len(objs) THEN Append(objs, [thenable |-> FALSE]) ELSE objs
  /\ builders' = Append(builders, [kind |-> "table", originalTable |-> o])
  /\ UNCHANGED <<chainVars, server, restVars, invocation, conv, cacheProxies, proxies, proxyCache, pick, lastCall, awaits>>

\* the await record of an underlying call made by the explicit builder:
\* pending, or rejected at once when the underlying method throws
XStarted(b, op, threw, reason) ==
  [via |-> "explicit", on |-> b, uobj |-> builders[b].originalTable, op |-> op,
   thenCalls |-> 1,
   under |-> IF threw THEN [k |-> "threw", v |-> reason] ELSE Pending,
   outcome |-> IF threw /\ op # "then" THEN [k |-> "rejected", v |-> reason]
               ELSE Pending]

\* CamelCaseTableQueryBuilder.insert(data), up to its await
XInsert(b, data, threw, reason) ==
  /\ b \in 1..Len(builders)
  /\ builders[b].kind = "table"
  /\ Len(awaits) < MaxAwaits
  /\ LET snakeCaseData == keysToSnakeCase(data)
     IN  lastCall' = [kind |-> "call", via |-> "explicit", builder |-> b,
                      method |-> "insert", args |-> <<data>>,
                      uobj |-> builders[b].originalTable, umethod |-> "insert",
                      uargs |-> <<snakeCaseData>>,
                      ures |-> [k |-> IF threw THEN "throw" ELSE "promise"],
                      ret |-> [k |-> "promise", a |-> Len(awaits) + 1]]
  /\ awaits' = Append(awaits, XStarted(b, "insert", threw, reason))
  /\ UNCHANGED <<chainVars, server, restVars, invocation, conv, cacheProxies, objs, proxies, proxyCache, builders, pick>>

\* CamelCaseTableQueryBuilder.upsert(data, options), up to its await
XUpsert(b, data, options, threw, reason) ==
  /\ b \in 1..Len(builders)
  /\ builders[b].kind = "table"
  /\ Len(awaits) < MaxAwaits
  /\ LET snakeCaseData == keysToSnakeCase(data)
     IN  lastCall' = [kind |-> "call", via |-> "explicit", builder |-> b,
                      method |-> "upsert", args |-> <<data, options>>,
                      uobj |-> builders[b].originalTable, umethod |-> "upsert",
                      uargs |-> <<snakeCaseData, options>>,
                      ures |-> [k |-> IF threw THEN "throw" ELSE "promise"],
                      ret |-> [k |-> "promise", a |-> Len(awaits) + 1]]
  /\ awaits' = Append(awaits, XStarted(b, "upsert", threw, reason))
  /\ UNCHANGED <<chainVars, server, restVars, invocation, conv, cacheProxies, objs, proxies, proxyCache, builders, pick>>

\* CamelCaseTableQueryBuilder.update(data): a new CamelCaseUpdateQueryBuilder
\* (given is the caller's payload, kept for reference only)
XUpdate(b, data) ==
  /\ b \in 1..Len(builders)
  /\ builders[b].kind = "table"
  /\ Len(builders) < MaxBuilders
  /\ LET snakeCaseData == keysToSnakeCase(data)
     IN  builders' = Append(builders,
                            [kind |-> "update",
                             originalTable |-> builders[b].originalTable,
                             updateData |-> snakeCaseData, given |-> data])
  /\ UNCHANGED <<chainVars, server, restVars, invocation, conv, cacheProxies, objs, proxies, proxyCache, pick, lastCall, awaits>>

\* CamelCaseUpdateQueryBuilder.then, called by `await builder`, up to its await
XUpdateThen(b, threw, reason) ==
  /\ b \in 1..Len(builders)
  /\ builders[b].kind = "update"
  /\ Len(awaits) < MaxAwaits
  /\ lastCall' = [kind |-> "call", via |-> "explicit", builder |-> b,
                  method |-> "update", args |-> <<builders[b].given>>,
                  uobj |-> builders[b].originalTable, umethod |-> "update",
                  uargs |-> <<builders[b].updateData>>,
                  ures |-> [k |-> IF threw THEN "throw" ELSE "promise"],
                  ret |-> [k |-> "promise", a |-> Len(awaits) + 1]]
  /\ awaits' = Append(awaits, XStarted(b, "then", threw, reason))
  /\ UNCHANGED <<chainVars, server, restVars, invocation, conv, cacheProxies, objs, proxies, proxyCache, builders, pick>>

\* the underlying promise resolves: the rest of insert, upsert or then
XFulfil(a, result) ==
  /\ a \in 1..Len(awaits)
  /\ awaits[a].via = "explicit"
  /\ awaits[a].under = Pending
  /\ awaits' = [awaits EXCEPT ![a].under = [k |-> "fulfilled", v |-> result],
                              ![a].outcome = [k |-> "fulfilled",
                                              v |-> transformedResult(result)]]
  /\ UNCHANGED <<chainVars, server, restVars, invocation, conv, cacheProxies, objs, proxies, proxyCache, builders, pick, lastCall>>

\* the underlying promise rejects: insert and upsert reject with the reason;
\* then rejects the promise it returned and never calls the _onrejected of
\* the await, which stays pending
XReject(a, reason) ==
  /\ a \in 1..Len(awaits)
  /\ awaits[a].via = "explicit"
  /\ awaits[a].under = Pending
  /\ awaits' = [awaits EXCEPT ![a].under = [k |-> "rejected", v |-> reason],
                              ![a].outcome = IF awaits[a].op = "then" THEN Pending
                                             ELSE [k |-> "rejected", v |-> reason]]
  /\ UNCHANGED <<chainVars, server, restVars, invocation, conv, cacheProxies, objs, proxies, proxyCache, builders, pick, lastCall>>

\* ------------------------------------------------------------------------
\* The converter on bounded inputs
\* ------------------------------------------------------------------------
ConvAlphabet == {"a", "b", "A", "B", "1", "_"}

ConvNames == StringsUpTo(ConvAlphabet, MaxLen) \ {<< >>}

ConvIdle ==
  [stage |-> "idle", input |-> << >>, snake |-> << >>, camel |-> << >>,
   xsnake |-> << >>, xcamel |-> << >>]

\* the caller holds a field name
ConvInit ==
  /\ conv \in {[ConvIdle EXCEPT !.stage = "picked", !.input = n] : n \in ConvNames}
  /\ cacheProxies = [d \in DBs |-> FALSE]
  /\ objs = << >>
  /\ proxies = << >>
  /\ proxyCache = [d \in DBs |-> EmptyMap]
  /\ builders = << >>
  /\ pick = NoPick
  /\ lastCall = NoCall
  /\ awaits = << >>
  /\ ChainsIdle
  /\ ServerIdle
  /\ InvokeIdle
  /\ RestIdle

\* the name as a column of the facade, convertColumnToSnakeCase(name), and as
\* a column of the explicit builder, convertColumn(name)
ConvToSnake ==
  /\ conv.stage = "picked"
  /\ conv' = [conv EXCEPT !.stage = "snake",
                          !.snake = convertColumnToSnakeCase(Str(conv.input)).s,
                          !.xsnake = convertColumn(conv.input)]
  /\ UNCHANGED <<facadeVars, chainVars, server, restVars, invocation>>

\* keysToCamelCase of a row with the converted name as its key, and the key
\* read back
ConvToCamel ==
  /\ conv.stage = "snake"
  /\ conv' = [conv EXCEPT
       !.stage = "back",
       !.camel = keysToCamelCase(Obj(1, <<<<conv.snake, Null>>>>)).kv[1][1],
       !.xcamel = keysToCamelCase(Obj(1, <<<<conv.xsnake, Null>>>>)).kv[1][1]]
  /\ UNCHANGED <<facadeVars, chainVars, server, restVars, invocation>>

ConvNext == ConvToSnake \/ ConvToCamel

SpecConv == ConvInit /\ [][ConvNext]_vars

\* ------------------------------------------------------------------------
\* The facade of two db instances over one client: wrappers and the cache
\* ------------------------------------------------------------------------
ChainShapes ==
  { <<"eq", <<Str(c_userId), Num(1)>>>>,
    <<"throwOnError", << >>>> }

Init == conv = ConvIdle /\ FacadeInit

Next ==
  \/ \E db \in DBs, o \in 1..MaxObjs : From(db, o, FALSE)
  \/ \E p \in 1..MaxProxies : GetProp(p, Str(c_count), Num(1))
  \/ \E p \in 1..MaxProxies, c \in ChainShapes, o \in 1..MaxObjs :
        CallObject(p, c[1], c[2], o)
  \/ \E p \in 1..MaxProxies, c \in ChainShapes : CallValue(p, c[1], c[2], Undefined)
  \/ \E p \in 1..MaxProxies, c \in ChainShapes :
        CallThrows(p, c[1], c[2], Inst("Error", 21))

Spec == Init /\ [][Next]_vars

\* ------------------------------------------------------------------------
\* One prepared call through the facade and through the explicit builder
\* ------------------------------------------------------------------------
ArgAlphabet == {"a", "B", "_", "(", ")", ".", "-", ">", ":", "*"}

ArgStrings == StringsUpTo(ArgAlphabet, MaxArgLen) \ {<< >>}

ArgShapes ==
  CallShapes \cup {<<"eq", <<Str(s), Str(s)>>>> : s \in ArgStrings}
             \cup {<<"get", <<k>>>> : k \in PropKeys}

PayloadMethods == {"insert", "upsert", "update"}

ArgsInit ==
  /\ conv = ConvIdle
  /\ cacheProxies = [d \in DBs |-> d = 1]
  /\ objs = << >>
  /\ proxies = << >>
  /\ proxyCache = [d \in DBs |-> EmptyMap]
  /\ builders = << >>
  /\ pick \in ArgShapes
  /\ lastCall = NoCall
  /\ awaits = << >>
  /\ ChainsIdle
  /\ ServerIdle
  /\ InvokeIdle
  /\ RestIdle

\* the facade a chain goes on with: the one the latest call returned, or the
\* one it was made on when it returned none
ChainHead ==
  IF lastCall.kind = "from" THEN lastCall.ret
  ELSE IF lastCall.kind = "call" /\ lastCall.via = "proxy"
       THEN IF lastCall.ret.k = "proxy" THEN lastCall.ret.p ELSE lastCall.proxy
       ELSE IF lastCall.kind = "get" THEN lastCall.proxy
       ELSE Len(proxies)

ArgsNext ==
  \/ From(1, 1, TRUE)
  \/ pick[1] = "get" /\ GetProp(ChainHead, pick[2][1], Num(1))
  \/ pick[1] # "get" /\ \E o \in 1..MaxObjs : CallObject(ChainHead, pick[1], pick[2], o)
  \/ pick[1] # "get" /\ CallValue(ChainHead, pick[1], pick[2], Undefined)
  \/ pick[1] # "get" /\ CallThrows(ChainHead, pick[1], pick[2], Str(c_boom))
  \/ pick[1] \in PayloadMethods /\ XFrom(1)
  \/ pick[1] = "insert" /\ \E b \in 1..MaxBuilders, threw \in BOOLEAN :
        XInsert(b, pick[2][1], threw, Str(c_boom))
  \/ pick[1] = "upsert" /\ \E b \in 1..MaxBuilders, threw \in BOOLEAN :
        XUpsert(b, pick[2][1], IF Len(pick[2]) >= 2 THEN pick[2][2] ELSE Undefined,
                threw, Str(c_boom))
  \/ pick[1] = "update" /\ \E b \in 1..MaxBuilders : XUpdate(b, pick[2][1])
  \/ \E b \in 1..MaxBuilders, threw \in BOOLEAN : XUpdateThen(b, threw, Str(c_boom))
  \/ \E a \in 1..MaxAwaits, result \in Envelopes : XFulfil(a, result)
  \/ \E a \in 1..MaxAwaits : XReject(a, Str(c_boom))

SpecArgs == ArgsInit /\ [][ArgsNext]_vars

\* ------------------------------------------------------------------------
\* Awaiting a facade chain
\* ------------------------------------------------------------------------
AwaitInit ==
  /\ conv = ConvIdle
  /\ cacheProxies \in {f \in [DBs -> BOOLEAN] : ~f[2]}
  /\ objs = << >>
  /\ proxies = << >>
  /\ proxyCache = [d \in DBs |-> EmptyMap]
  /\ builders = << >>
  /\ pick = NoPick
  /\ lastCall = NoCall
  /\ awaits = << >>
  /\ ChainsIdle
  /\ ServerIdle
  /\ InvokeIdle
  /\ RestIdle

AwaitNext ==
  \/ \E o \in 1..MaxObjs, thenable \in BOOLEAN : From(1, o, thenable)
  \/ \E p \in 1..MaxProxies, o \in 1..MaxObjs :
        CallObject(p, "select", <<Str(s_star)>>, o)
  \/ \E p \in 1..MaxProxies, threw \in BOOLEAN, reason \in Reasons :
        Await(p, threw, reason)
  \/ \E a \in 1..MaxAwaits, result \in Envelopes : Fulfil(a, result)
  \/ \E a \in 1..MaxAwaits, reason \in Reasons : Reject(a, reason)

SpecAwait == AwaitInit /\ [][AwaitNext]_vars

\* ------------------------------------------------------------------------
\* Two chains through the facade of one db instance, interleaved
\* ------------------------------------------------------------------------
Chains == {1, 2}

\* the calls each caller chains: a read chain and a write chain
ChainCalls(c) ==
  IF c = 1
  THEN { <<"select", <<Str(s_col_list)>>>>, <<"eq", <<Str(c_userId), Num(1)>>>> }
  ELSE { <<"update", <<NestedPayload>>>>, <<"order", <<Str(c_createdAt), OrderOptions>>>> }

\* the envelopes the terminal of each chain's handle may resolve to
ChainEnvelopes(c) ==
  IF c = 1
  THEN { e \in Envelopes : e.status = Num(200) }
  ELSE { e \in Envelopes : e.status \in {Num(201), Num(400)} }

NewHandle == [calls |-> << >>, result |-> Pending]

\* another chain is between its first call and its settlement
OtherInFlight(c) ==
  \E d \in Chains \ {c} : chains[d].stage \in {"started", "chained", "awaiting"}

ChainsInit ==
  /\ conv = ConvIdle
  /\ cacheProxies \in {f \in [DBs -> BOOLEAN] : ~f[2]}
  /\ objs = << >>
  /\ proxies = << >>
  /\ proxyCache = [d \in DBs |-> EmptyMap]
  /\ builders = << >>
  /\ pick = NoPick
  /\ lastCall = NoCall
  /\ awaits = << >>
  /\ chains = [c \in Chains |-> [stage |-> "new", head |-> 0, own |-> << >>,
                                  sent |-> << >>, mixed |-> FALSE, awaited |-> 0,
                                  outcome |-> Pending]]
  /\ handles = << >>
  /\ ServerIdle
  /\ InvokeIdle
  /\ RestIdle

\* chain c starts: db.from(table), the client handing out a new table handle
ChainFrom(c) ==
  /\ chains[c].stage = "new"
  /\ LET o == Len(objs) + 1
         made == createQueryProxy(o, 1)
     IN  /\ o <= MaxObjs
         /\ objs' = Append(objs, [thenable |-> TRUE])
         /\ handles' = Append(handles, NewHandle)
         /\ proxies' = made.proxies
         /\ proxyCache' = made.proxyCache
         /\ chains' = [chains EXCEPT ![c].stage = "started",
                                      ![c].head = made.proxy,
                                      ![c].own = <<o>>,
                                      ![c].mixed = OtherInFlight(c)]
  /\ UNCHANGED <<conv, cacheProxies, builders, pick, lastCall, awaits, server, restVars, invocation>>

\* chain c calls a method on the facade it holds: the wrapped function of
\* handler.get, the underlying method returning `this` or a new builder
ChainCall(c, call, fresh) ==
  /\ chains[c].stage \in {"started", "chained"}
  /\ Len(chains[c].sent) < MaxChainLen
  /\ LET p == chains[c].head
         obj == proxies[p].target
         o == IF fresh THEN Len(objs) + 1 ELSE obj
         made == createQueryProxy(o, proxies[p].db)
         got == [handles EXCEPT ![obj].calls =
                   Append(@, <<call[1], processedArgs(call[2])>>)]
     IN  /\ o <= MaxObjs
         /\ objs' = IF fresh THEN Append(objs, [thenable |-> TRUE]) ELSE objs
         /\ handles' = IF fresh THEN Append(got, NewHandle) ELSE got
         /\ proxies' = made.proxies
         /\ proxyCache' = made.proxyCache
         /\ chains' = [chains EXCEPT ![c].stage = "chained",
                                      ![c].head = made.proxy,
                                      ![c].own = IF fresh THEN Append(@, o) ELSE @,
                                      ![c].sent = Append(@, call),
                                      ![c].mixed = @ \/ OtherInFlight(c)]
  /\ UNCHANGED <<conv, cacheProxies, builders, pick, lastCall, awaits, server, restVars, invocation>>

\* `await` of the facade chain c holds: the `then` interceptor calls the
\* underlying `then` on the raw object
ChainAwait(c) ==
  /\ chains[c].stage = "chained"
  /\ LET obj == proxies[chains[c].head].target
     IN  handles' = [handles EXCEPT ![obj].calls = Append(@, <<"then", << >>>>)]
  /\ chains' = [chains EXCEPT ![c].stage = "awaiting",
                               ![c].mixed = @ \/ OtherInFlight(c)]
  /\ UNCHANGED <<conv, cacheProxies, objs, proxies, proxyCache, builders, pick, lastCall,
                 awaits, server, restVars, invocation>>

\* the terminal of chain c's handle resolves: the async callback of the
\* interceptor hands the transformed envelope to the await
ChainFulfil(c, result) ==
  /\ chains[c].stage = "awaiting"
  /\ LET obj == proxies[chains[c].head].target
     IN  handles' = [handles EXCEPT ![obj].result = [k |-> "fulfilled", v |-> result]]
  /\ chains' = [chains EXCEPT ![c].stage = "settled",
                               ![c].outcome = [k |-> "fulfilled",
                                               v |-> transformedResult(result)],
                               ![c].mixed = @ \/ OtherInFlight(c)]
  /\ UNCHANGED <<conv, cacheProxies, objs, proxies, proxyCache, builders, pick, lastCall,
                 awaits, server, restVars, invocation>>

\* the terminal of chain c's handle rejects: the await's own onrejected runs
ChainReject(c, reason) ==
  /\ chains[c].stage = "awaiting"
  /\ LET obj == proxies[chains[c].head].target
     IN  handles' = [handles EXCEPT ![obj].result = [k |-> "rejected", v |-> reason]]
  /\ chains' = [chains EXCEPT ![c].stage = "settled",
                               ![c].outcome = rejected(reason),
                               ![c].mixed = @ \/ OtherInFlight(c)]
  /\ UNCHANGED <<conv, cacheProxies, objs, proxies, proxyCache, builders, pick, lastCall,
                 awaits, server, restVars, invocation>>

\* a caller starts with either of its calls and does not repeat a call at once
ChainsNext ==
  \/ \E c \in Chains : ChainFrom(c)
  \/ \E c \in Chains : \E call \in ChainCalls(c), fresh \in BOOLEAN :
        /\ IF chains[c].sent = << >> THEN TRUE
           ELSE call # chains[c].sent[Len(chains[c].sent)]
        /\ ChainCall(c, call, fresh)
  \/ \E c \in Chains : ChainAwait(c)
  \/ \E c \in Chains : \E result \in ChainEnvelopes(c) : ChainFulfil(c, result)
  \/ \E c \in Chains : ChainReject(c, Inst("Error", 20 + c))

SpecChains == ChainsInit /\ [][ChainsNext]_vars

\* ------------------------------------------------------------------------
\* One select chain through the facade (chain 1) and the same kind of chain
\* through the explicit builder (chain 2)
\* ------------------------------------------------------------------------
\* select as a caller starts a read chain with it
SelectShapes ==
  { <<"select", <<Str(s_star)>>>>, <<"select", <<Str(c_userName)>>>> }

\* filter and modifier methods that BaseFilterBuilder implements, with simple
\* camelCase columns
FilterShapes ==
  { <<"eq", <<Str(c_userId), Num(1)>>>>,
    <<"order", <<Str(c_createdAt), OrderOptions>>>>,
    <<"limit", <<Num(10)>>>> }

\* the argument at position i of a call, undefined when it was not given
ArgAt(args, i) == IF i <= Len(args) THEN args[i] ELSE Undefined

\* what a method of BaseFilterBuilder hands the same method of originalTable
filterArgs(method, args) ==
  IF method = "limit" THEN <<ArgAt(args, 1)>>
  ELSE IF method = "match" THEN <<keysToSnakeCase(ArgAt(args, 1))>>
  ELSE IF method = "or" THEN <<ArgAt(args, 1), ArgAt(args, 2)>>
  ELSE <<Str(convertColumn(ArgAt(args, 1).s)), ArgAt(args, 2)>>

\* the terminal operation that the builder made by call issues when awaited:
\* select with the query as given, update with the converted payload, delete
terminalCall(call) ==
  IF call[1] = "select" THEN <<"select", <<ArgAt(call[2], 1)>>>>
  ELSE IF call[1] = "update" THEN <<"update", <<keysToSnakeCase(ArgAt(call[2], 1))>>>>
  ELSE <<"delete", << >>>>

\* a `then` that issues the terminal operation twice
thenCalls_twice(call) ==
  <<terminalCall(call), terminalCall(call), <<"then", << >>>>>>

\* the calls that `then` of the builder made by call makes on originalTable:
\* the terminal operation, and the await of what it returns
thenCalls(call) == <<terminalCall(call), <<"then", << >>>>>>

\* CamelCaseDb.from(table) of the explicit builder, as the start of chain c
XChainFrom(c) ==
  /\ chains[c].stage = "new"
  /\ LET o == Len(objs) + 1
     IN  /\ o <= MaxObjs
         /\ objs' = Append(objs, [thenable |-> FALSE])
         /\ handles' = Append(handles, NewHandle)
         /\ chains' = [chains EXCEPT ![c].stage = "started",
                                      ![c].own = <<o>>,
                                      ![c].mixed = OtherInFlight(c)]
  /\ UNCHANGED <<conv, cacheProxies, proxies, proxyCache, builders, pick, lastCall, awaits,
                 server, restVars, invocation>>

\* CamelCaseTableQueryBuilder.select(query): a CamelCaseSelectQueryBuilder that
\* keeps the query; the underlying table is not called
XChainSelect(c, call) ==
  /\ chains[c].stage = "started"
  /\ call[1] = "select"
  /\ chains' = [chains EXCEPT ![c].stage = "chained",
                               ![c].sent = Append(@, call),
                               ![c].mixed = @ \/ OtherInFlight(c)]
  /\ UNCHANGED <<conv, cacheProxies, objs, proxies, proxyCache, builders, pick, lastCall,
                 awaits, handles, server, restVars, invocation>>

\* a filter or modifier method of BaseFilterBuilder: the same method of
\* originalTable is called at once, and the builder returns itself
XChainFilter(c, call) ==
  /\ chains[c].stage = "chained"
  /\ Len(chains[c].sent) < MaxChainLen
  /\ LET originalTable == chains[c].own[1]
     IN  handles' = [handles EXCEPT ![originalTable].calls =
                       Append(@, <<call[1], filterArgs(call[1], call[2])>>)]
  /\ chains' = [chains EXCEPT ![c].sent = Append(@, call),
                               ![c].mixed = @ \/ OtherInFlight(c)]
  /\ UNCHANGED <<conv, cacheProxies, objs, proxies, proxyCache, builders, pick, lastCall,
                 awaits, server, restVars, invocation>>

\* CamelCaseSelectQueryBuilder.then, called by `await builder`:
\* originalTable.select(this.query) and the await of what it returns
XChainThen(c) ==
  /\ chains[c].stage = "chained"
  /\ LET originalTable == chains[c].own[1]
     IN  handles' = [handles EXCEPT ![originalTable].calls =
                       @ \o thenCalls(chains[c].sent[1])]
  /\ chains' = [chains EXCEPT ![c].stage = "awaiting",
                               ![c].awaited = @ + 1,
                               ![c].mixed = @ \/ OtherInFlight(c)]
  /\ UNCHANGED <<conv, cacheProxies, objs, proxies, proxyCache, builders, pick, lastCall,
                 awaits, server, restVars, invocation>>

\* the promise of originalTable.select resolves: the rest of `then`
XChainFulfil(c, result) ==
  /\ chains[c].stage = "awaiting"
  /\ handles' = [handles EXCEPT ![chains[c].own[1]].result =
                    [k |-> "fulfilled", v |-> result]]
  /\ chains' = [chains EXCEPT ![c].stage = "settled",
                               ![c].outcome = [k |-> "fulfilled",
                                               v |-> transformedResult(result)],
                               ![c].mixed = @ \/ OtherInFlight(c)]
  /\ UNCHANGED <<conv, cacheProxies, objs, proxies, proxyCache, builders, pick, lastCall,
                 awaits, server, restVars, invocation>>

\* the promise of originalTable.select rejects: `then` rejects the promise
\* it returned and never calls _onrejected, so the await stays pending
XChainReject(c, reason) ==
  /\ chains[c].stage = "awaiting"
  /\ handles' = [handles EXCEPT ![chains[c].own[1]].result =
                    [k |-> "rejected", v |-> reason]]
  /\ chains' = [chains EXCEPT ![c].stage = "abandoned",
                               ![c].mixed = @ \/ OtherInFlight(c)]
  /\ UNCHANGED <<conv, cacheProxies, objs, proxies, proxyCache, builders, pick, lastCall,
                 awaits, server, restVars, invocation>>

\* CamelCaseTableQueryBuilder.update(data) and delete(): a builder that keeps
\* the converted payload; the underlying table is not called
XChainWrite(c, call) ==
  /\ chains[c].stage = "started"
  /\ call[1] \in {"update", "delete"}
  /\ chains' = [chains EXCEPT ![c].stage = "chained",
                               ![c].sent = Append(@, call),
                               ![c].mixed = @ \/ OtherInFlight(c)]
  /\ UNCHANGED <<conv, cacheProxies, objs, proxies, proxyCache, builders, pick, lastCall,
                 awaits, handles, server, restVars, invocation>>

\* a settled builder is awaited again: `then` runs again
XChainThenAgain(c) ==
  /\ chains[c].stage = "settled"
  /\ chains[c].awaited < MaxThens
  /\ LET originalTable == chains[c].own[1]
     IN  handles' = [handles EXCEPT ![originalTable].calls =
                       @ \o thenCalls(chains[c].sent[1]),
                                   ![originalTable].result = Pending]
  /\ chains' = [chains EXCEPT ![c].stage = "awaiting",
                               ![c].awaited = @ + 1,
                               ![c].outcome = Pending]
  /\ UNCHANGED <<conv, cacheProxies, objs, proxies, proxyCache, builders, pick, lastCall,
                 awaits, server, restVars, invocation>>

BothNext ==
  \/ ChainFrom(1)
  \/ chains[1].stage = "started" /\ \E call \in SelectShapes, fresh \in BOOLEAN :
        ChainCall(1, call, fresh)
  \/ chains[1].stage = "chained" /\ \E call \in FilterShapes, fresh \in BOOLEAN :
        ChainCall(1, call, fresh)
  \/ ChainAwait(1)
  \/ \E result \in Envelopes : ChainFulfil(1, result)
  \/ \E reason \in Reasons : ChainReject(1, reason)
  \/ XChainFrom(2)
  \/ \E call \in SelectShapes : XChainSelect(2, call)
  \/ \E call \in FilterShapes : XChainFilter(2, call)
  \/ XChainThen(2)
  \/ \E result \in Envelopes : XChainFulfil(2, result)
  \/ \E reason \in Reasons : XChainReject(2, reason)

SpecBoth == ChainsInit /\ [][BothNext]_vars

\* ------------------------------------------------------------------------
\* The layers of the dynamic facade: a call on a wrapper goes down through
\* handler.get of the wrapper (and of its target, were that a wrapper too)
\* to the raw object, and its result comes back up through the same layers
\* ------------------------------------------------------------------------
Raw(o) == [k |-> "raw", i |-> o]

Wrapper(p) == [k |-> "wrapper", i |-> p]

\* a wrapped function that applies the method to the Proxy it was read from
thisArg_receiver(p) == Wrapper(p)

\* value.apply(obj, processedArgs): `this` of the underlying method is the
\* target of the Proxy
thisArg(p) == proxies[p].target

WrapCalls == FilterShapes \cup { <<"throwOnError", << >>>> }

NoCallInFlight ==
  IF lastCall.kind = "none" THEN TRUE ELSE lastCall.phase = "done"

\* CamelCaseDb.from(table) of the dynamic facade
WrapFrom(db, o) ==
  /\ NoCallInFlight
  /\ ClientFrom(o)
  /\ LET made == createQueryProxy(Raw(o), db)
     IN  /\ made.proxy <= MaxProxies
         /\ objs' = IF o > Len(objs) THEN Append(objs, [thenable |-> TRUE]) ELSE objs
         /\ proxies' = made.proxies
         /\ proxyCache' = made.proxyCache
  /\ lastCall' = NoCall
  /\ UNCHANGED <<conv, cacheProxies, builders, pick, awaits, chainVars, server,
                 invocation, restVars>>

\* the caller calls a method on the wrapper p (`then` when it awaits p)
WrapCall(p, call) ==
  /\ NoCallInFlight
  /\ p \in 1..Len(proxies)
  /\ lastCall' = [kind |-> "call", phase |-> "down", on |-> p, method |-> call[1],
                  given |-> call[2], args |-> call[2], at |-> Wrapper(p),
                  stack |-> << >>, n |-> 0, under |-> Null, value |-> Null]
  /\ UNCHANGED <<conv, cacheProxies, objs, proxies, proxyCache, builders, pick, awaits,
                 chainVars, server, invocation, restVars>>

\* handler.get of the wrapper the call is at: the `then` interceptor, or the
\* wrapped function converting the arguments, passes the call to the target
WrapGet ==
  /\ lastCall.kind = "call"
  /\ lastCall.phase = "down"
  /\ lastCall.at.k = "wrapper"
  /\ lastCall' = [lastCall EXCEPT
                    !.args = IF lastCall.method = "then" THEN @ ELSE processedArgs(@),
                    !.n = @ + 1,
                    !.stack = Append(@, lastCall.at.i),
                    !.at = proxies[lastCall.at.i].target]
  /\ UNCHANGED <<conv, cacheProxies, objs, proxies, proxyCache, builders, pick, awaits,
                 chainVars, server, invocation, restVars>>

\* the method of the raw object runs and returns `this` or a new builder
WrapUnder(fresh) ==
  /\ lastCall.kind = "call"
  /\ lastCall.phase = "down"
  /\ lastCall.at.k = "raw"
  /\ lastCall.method # "then"
  /\ fresh => Len(objs) < MaxObjs
  /\ objs' = IF fresh THEN Append(objs, [thenable |-> TRUE]) ELSE objs
  /\ lastCall' = [lastCall EXCEPT
                    !.phase = "up",
                    !.under = [obj |-> lastCall.at.i, method |-> lastCall.method,
                               args |-> lastCall.args],
                    !.value = IF fresh THEN Raw(Len(objs) + 1)
                              ELSE thisArg(lastCall.stack[Len(lastCall.stack)])]
  /\ UNCHANGED <<conv, cacheProxies, proxies, proxyCache, builders, pick, awaits,
                 chainVars, server, invocation, restVars>>

\* `then` of the raw object: the terminal operation resolves with result
WrapSettles(result) ==
  /\ lastCall.kind = "call"
  /\ lastCall.phase = "down"
  /\ lastCall.at.k = "raw"
  /\ lastCall.method = "then"
  /\ lastCall' = [lastCall EXCEPT
                    !.phase = "up",
                    !.under = [obj |-> lastCall.at.i, method |-> "then", result |-> result],
                    !.value = result]
  /\ UNCHANGED <<conv, cacheProxies, objs, proxies, proxyCache, builders, pick, awaits,
                 chainVars, server, invocation, restVars>>

\* the innermost layer still open finishes: the async callback of the `then`
\* interceptor transforms the envelope, the wrapped function wraps the object
\* that the method returned
WrapReturn ==
  /\ lastCall.kind = "call"
  /\ lastCall.phase = "up"
  /\ LET q == lastCall.stack[Len(lastCall.stack)]
         rest == SubSeq(lastCall.stack, 1, Len(lastCall.stack) - 1)
         phase == IF rest = << >> THEN "done" ELSE "up"
     IN  IF lastCall.method = "then"
         THEN /\ lastCall' = [lastCall EXCEPT !.phase = phase, !.stack = rest,
                                               !.value = transformedResult(@)]
              /\ UNCHANGED <<proxies, proxyCache>>
         ELSE LET made == createQueryProxy(lastCall.value, proxies[q].db)
              IN  /\ made.proxy <= MaxProxies
                  /\ proxies' = made.proxies
                  /\ proxyCache' = made.proxyCache
                  /\ lastCall' = [lastCall EXCEPT !.phase = phase, !.stack = rest,
                                                   !.value = Wrapper(made.proxy)]
  /\ UNCHANGED <<conv, cacheProxies, objs, builders, pick, awaits, chainVars, server,
                 invocation, restVars>>

WrapNext ==
  \/ \E db \in DBs, o \in 1..MaxObjs : WrapFrom(db, o)
  \/ \E p \in 1..MaxProxies, call \in WrapCalls \cup { <<"then", << >>>> } : WrapCall(p, call)
  \/ WrapGet
  \/ \E fresh \in BOOLEAN : WrapUnder(fresh)
  \/ \E result \in Envelopes : WrapSettles(result)
  \/ WrapReturn

SpecWrap == Init /\ [][WrapNext]_vars

\* ------------------------------------------------------------------------
\* Two chains through the explicit builder: a read chain (chain 1) and a
\* write chain (chain 2)
\* ------------------------------------------------------------------------
WriteShapes == { <<"update", <<Payload>>>>, <<"delete", << >>>> }

\* the filters and modifiers each caller chains
ExplicitFilters(c) ==
  IF c = 1
  THEN { call \in FilterShapes : call[1] \in {"eq", "limit"} }
  ELSE { call \in FilterShapes : call[1] = "order" }

\* createCamelCaseDb(client): no facade, no cache
ExplicitInit == ChainsInit /\ \A d \in DBs : ~cacheProxies[d]

ExplicitNext ==
  \/ \E c \in Chains : XChainFrom(c)
  \/ \E call \in SelectShapes : XChainSelect(1, call)
  \/ \E call \in WriteShapes : XChainWrite(2, call)
  \/ \E c \in Chains : \E call \in ExplicitFilters(c) : XChainFilter(c, call)
  \/ \E c \in Chains : XChainThen(c)
  \/ \E c \in Chains : XChainThenAgain(c)
  \/ \E c \in Chains : \E result \in ChainEnvelopes(c) : XChainFulfil(c, result)
  \/ \E c \in Chains : XChainReject(c, Inst("Error", 20 + c))

SpecExplicit == ExplicitInit /\ [][ExplicitNext]_vars

\* the same steps under the scheduling of the event loop: as long as a step
\* can be taken, one is taken
SpecExplicitFair == ExplicitInit /\ [][ExplicitNext]_vars /\ WF_vars(ExplicitNext)

\* ------------------------------------------------------------------------
\* createServer: the handler given to Deno.serve, and one request through it
\* ------------------------------------------------------------------------
\* 'ok'
m_ok ==
  <<"o", "k">>

\* 'Method not allowed'
m_method_not_allowed ==
  <<"M", "e", "t", "h", "o", "d", " ", "n", "o", "t", " ", "a", "l", "l",
    "o", "w", "e", "d">>

\* 'Missing required environment variables: '
m_missing_env ==
  <<"M", "i", "s", "s", "i", "n", "g", " ", "r", "e", "q", "u", "i", "r",
    "e", "d", " ", "e", "n", "v", "i", "r", "o", "n", "m", "e", "n", "t",
    " ", "v", "a", "r", "i", "a", "b", "l", "e", "s", ":", " ">>

\* ', '
m_comma ==
  <<",", " ">>

\* 'Unauthorized'
m_unauthorized ==
  <<"U", "n", "a", "u", "t", "h", "o", "r", "i", "z", "e", "d">>

\* 'Request timed out after 60000ms'
m_timer ==
  <<"R", "e", "q", "u", "e", "s", "t", " ", "t", "i", "m", "e", "d", " ",
    "o", "u", "t", " ", "a", "f", "t", "e", "r", " ", "6", "0", "0", "0",
    "0", "m", "s">>

\* 'Request timed out'
m_timed_out ==
  <<"R", "e", "q", "u", "e", "s", "t", " ", "t", "i", "m", "e", "d", " ",
    "o", "u", "t">>

\* 'Internal server error'
m_internal ==
  <<"I", "n", "t", "e", "r", "n", "a", "l", " ", "s", "e", "r", "v", "e",
    "r", " ", "e", "r", "r", "o", "r">>

\* 'Invalid data provided.'
m_invalid_data ==
  <<"I", "n", "v", "a", "l", "i", "d", " ", "d", "a", "t", "a", " ", "p",
    "r", "o", "v", "i", "d", "e", "d", ".">>

\* 'VALIDATION_ERROR'
m_validation_error ==
  <<"V", "A", "L", "I", "D", "A", "T", "I", "O", "N", "_", "E", "R", "R",
    "O", "R">>

\* 'Invalid JSON in request body'
m_invalid_json ==
  <<"I", "n", "v", "a", "l", "i", "d", " ", "J", "S", "O", "N", " ", "i",
    "n", " ", "r", "e", "q", "u", "e", "s", "t", " ", "b", "o", "d", "y">>

\* 'Unexpected token in JSON'
m_bad_json ==
  <<"U", "n", "e", "x", "p", "e", "c", "t", "e", "d", " ", "t", "o", "k",
    "e", "n", " ", "i", "n", " ", "J", "S", "O", "N">>

\* 'Invalid regular expression'
m_bad_regex ==
  <<"I", "n", "v", "a", "l", "i", "d", " ", "r", "e", "g", "u", "l", "a",
    "r", " ", "e", "x", "p", "r", "e", "s", "s", "i", "o", "n">>

\* 'Request timed out upstream'
m_upstream ==
  <<"R", "e", "q", "u", "e", "s", "t", " ", "t", "i", "m", "e", "d", " ",
    "o", "u", "t", " ", "u", "p", "s", "t", "r", "e", "a", "m">>

\* 'Validation failed'
m_custom ==
  <<"V", "a", "l", "i", "d", "a", "t", "i", "o", "n", " ", "f", "a", "i",
    "l", "e", "d">>

\* 'CUSTOM'
m_custom_code ==
  <<"C", "U", "S", "T", "O", "M">>

\* 'SUPABASE_URL'
e_SUPABASE_URL ==
  <<"S", "U", "P", "A", "B", "A", "S", "E", "_", "U", "R", "L">>

\* 'SUPABASE_ANON_KEY'
e_SUPABASE_ANON_KEY ==
  <<"S", "U", "P", "A", "B", "A", "S", "E", "_", "A", "N", "O", "N", "_",
    "K", "E", "Y">>

HTTP_STATUS_OK == 200
HTTP_STATUS_BAD_REQUEST == 400
HTTP_STATUS_UNAUTHORIZED == 401
HTTP_STATUS_METHOD_NOT_ALLOWED == 405
HTTP_STATUS_REQUEST_TIMEOUT == 408
HTTP_STATUS_INTERNAL_SERVER_ERROR == 500

\* a Response: who made it, its status, and the error and code of its body
Response(origin, status, error, code) ==
  [origin |-> origin, status |-> status, error |-> error, code |-> code]

\* a thrown Error of class cls (Error, SyntaxError, ZodError) with a message
Err(cls, message) == [t |-> "error", cls |-> cls, message |-> message]

\* response headers: a function from header names to values; the value of
\* Access-Control-Allow-Methods is the list of method names that the string
\* joins with ', '
EmptyHeaders == [h \in {} |-> << >>]

\* { ...a, ...b }
spread(a, b) ==
  [h \in DOMAIN a \cup DOMAIN b |-> IF h \in DOMAIN b THEN b[h] ELSE a[h]]

defaultResponseHeaders ==
  [h \in {"Access-Control-Allow-Origin", "Access-Control-Allow-Headers",
          "Access-Control-Allow-Methods"} |->
     IF h = "Access-Control-Allow-Origin" THEN <<"*">>
     ELSE IF h = "Access-Control-Allow-Headers"
     THEN <<"authorization", "x-client-info", "apikey", "content-type">>
     ELSE <<"GET", "POST", "PUT", "DELETE", "OPTIONS">>]

\* the headers option of a caller that overrides the allowed origin
CustomHeaders ==
  [h \in {"Access-Control-Allow-Origin"} |-> <<"https://custom.com">>]

\* the array allowedMethods of a configuration
methodList(allowedMethods) ==
  SelectSeq(<<"POST", "GET", "OPTIONS">>, LAMBDA m : m \in allowedMethods)

\* a handler that keeps the caller's headers option unmerged
configHeaders_unmerged(cfg) == cfg.headers

\* config.headers after createServer has merged it: the defaults, then
\* Access-Control-Allow-Methods from allowedMethods and OPTIONS, then the
\* caller's headers
configHeaders(cfg) ==
  spread(spread(defaultResponseHeaders,
                [h \in {"Access-Control-Allow-Methods"} |->
                   methodList(cfg.allowedMethods) \o <<"OPTIONS">>]),
         cfg.headers)

\* the headers of a response made by createErrorResponse / createSuccessResponse
\* with the optional argument headers
responseHeaders(headers) ==
  spread(spread(defaultResponseHeaders,
                IF headers = Undefined THEN EmptyHeaders ELSE headers),
         [h \in {"Content-Type"} |-> <<"application/json">>])

\* a response as it is sent: status and body, with its headers
Sent(response, headers) ==
  [origin |-> response.origin, status |-> response.status, error |-> response.error,
   code |-> response.code, headers |-> headers]

\* status and body of a sent response
Body(sent) == Response(sent.origin, sent.status, sent.error, sent.code)

Bodies(responses) == [i \in 1..Len(responses) |-> Body(responses[i])]

\* createErrorResponse(error, status, headers) for a string and for an ApiError
createErrorResponse(error, status, headers) ==
  Sent(IF error.t = "string" THEN Response("server", status, error.s, << >>)
       ELSE Response("server", status, error.message, error.code),
       responseHeaders(headers))

\* autoHandlePreflight(headers): new Response('ok', { headers })
PreflightResponse(headers) ==
  Sent(Response("preflight", HTTP_STATUS_OK, << >>, << >>), headers)

\* validateMethod(req, allowedMethods)
validateMethod(method, allowedMethods) == method \in allowedMethods

\* array.join(', ')
RECURSIVE join(_)
join(names) ==
  IF names = << >> THEN << >>
  ELSE IF Len(names) = 1 THEN names[1]
  ELSE names[1] \o m_comma \o join(Tail(names))

\* validateEnvironment(requiredVars): the names Deno.env does not have
validateEnvironment(requiredVars, env) ==
  SelectSeq(requiredVars, LAMBDA varName : varName \notin env)

\* the requests, configurations and environments of the model
Methods == {"POST", "GET", "OPTIONS"}

RequiredEnvVars == <<e_SUPABASE_URL, e_SUPABASE_ANON_KEY>>

Configs ==
  [authenticate : BOOLEAN,
   autoHandlePreflight : BOOLEAN,
   allowedMethods : {{"POST"}, {"POST", "OPTIONS"}},
   requiredEnvVars : {RequiredEnvVars},
   onError : {"absent", "declines", "handles", "throws"},
   headers : {EmptyHeaders, CustomHeaders}]

Environments == SUBSET {e_SUPABASE_URL, e_SUPABASE_ANON_KEY}

\* what supabaseClient.auth.getUser() settles to
AuthUser == Inst("User", 41)

AuthError == Err("Error", m_unauthorized)

GetUserResults ==
  { [k |-> "resolved", data |-> [user |-> AuthUser], error |-> Null],
    [k |-> "resolved", data |-> [user |-> Null], error |-> Null],
    [k |-> "resolved", data |-> [user |-> Null], error |-> AuthError],
    [k |-> "resolved", data |-> [user |-> AuthUser], error |-> AuthError],
    [k |-> "resolved", data |-> Null, error |-> Null],
    [k |-> "rejected", error |-> AuthError] }

\* what the callback returns, and what it throws or rejects with
CallbackResponses ==
  { Sent(Response("callback", HTTP_STATUS_OK, << >>, << >>), responseHeaders(Undefined)),
    Sent(Response("callback", HTTP_STATUS_REQUEST_TIMEOUT, m_timed_out, << >>),
         responseHeaders(Undefined)) }

CallbackErrors ==
  { Err("ZodError", m_invalid_data),
    Err("SyntaxError", m_bad_json),
    Err("SyntaxError", m_bad_regex),
    Err("Error", c_boom),
    Err("Error", m_upstream),
    Str(c_boom) }

\* what a configured handler that throws, throws
OnErrorThrown == Err("Error", m_upstream)

\* config.onError(error): what a configured handler returns
onError(cfg, error) ==
  IF cfg.onError = "handles"
  THEN [t |-> "apiError", message |-> m_custom, code |-> m_custom_code]
  ELSE Null

\* the part of processRequest's auth block that decides on the user that
\* ignores result.error
authenticated_ignoresError(result) ==
  IF result.k = "rejected" THEN Undefined
  ELSE IF result.data = Null THEN Undefined
  ELSE IF result.data.user \in {Null, Undefined} THEN Undefined
  ELSE result.data.user

\* the same part without the check `user == null`
authenticated_nullUser(result) ==
  IF result.k = "rejected" THEN Undefined
  ELSE IF result.data = Null THEN Undefined
  ELSE IF result.error # Null THEN Undefined
  ELSE result.data.user

\* the user the auth block of processRequest ends with: undefined where the
\* block returns 401 (getUser rejected, result.data.user threw, result.error
\* was thrown, or the fetched user was null)
authenticated(result) ==
  IF result.k = "rejected" THEN Undefined
  ELSE IF result.data = Null THEN Undefined
  ELSE IF result.error # Null THEN Undefined
  ELSE IF result.data.user \in {Null, Undefined} THEN Undefined
  ELSE result.data.user

\* the catch block around `await callback(context)`: how processRequest
\* settles when the callback threw or rejected with error
callbackFailed(cfg, error) ==
  IF cfg.onError = "throws"
  THEN [k |-> "rejected", v |-> OnErrorThrown]
  ELSE IF cfg.onError # "absent" /\ onError(cfg, error) # Null
  THEN [k |-> "resolved",
        v |-> createErrorResponse(onError(cfg, error), HTTP_STATUS_BAD_REQUEST,
                                  configHeaders(cfg))]
  ELSE IF error.t = "error" /\ error.cls = "ZodError"
  THEN [k |-> "resolved",
        v |-> createErrorResponse([t |-> "apiError", message |-> m_invalid_data,
                                   code |-> m_validation_error],
                                  HTTP_STATUS_BAD_REQUEST, Undefined)]
  ELSE IF error.t = "error" /\ error.cls = "SyntaxError" /\ includes(error.message, <<"J","S","O","N">>)
  THEN [k |-> "resolved",
        v |-> createErrorResponse(Str(m_invalid_json), HTTP_STATUS_BAD_REQUEST,
                                  configHeaders(cfg))]
  ELSE [k |-> "rejected", v |-> error]

\* the catch block of the handler: the response for a rejected race
handlerCatch(cfg, error) ==
  IF error.t = "error" /\ includes(error.message, m_timed_out)
  THEN createErrorResponse(Str(m_timed_out), HTTP_STATUS_REQUEST_TIMEOUT, configHeaders(cfg))
  ELSE createErrorResponse(IF error.t = "error" THEN Str(error.message) ELSE Str(m_internal),
                           HTTP_STATUS_INTERNAL_SERVER_ERROR, configHeaders(cfg))

\* the rejection of timeoutPromise
TimeoutError == Err("Error", m_timer)

\* the response of the handler once the race has settled with outcome
respond(cfg, outcome) ==
  IF outcome.k = "resolved" THEN outcome.v ELSE handlerCatch(cfg, outcome.v)

\* a race in which a later settlement produces a response as well
race_everySettlement(cfg, responses, outcome) == Append(responses, respond(cfg, outcome))

\* `await Promise.race([...])`: the first settlement decides, later ones are
\* ignored
race(cfg, responses, outcome) ==
  IF responses = << >> THEN <<respond(cfg, outcome)>> ELSE responses

\* processRequest up to its first await: the steps taken, how far it got, and
\* the response of the race when it has settled already
processRequest(cfg, env, createClientThrows) ==
  LET missingEnvVars == validateEnvironment(cfg.requiredEnvVars, env)
  IN  IF Len(missingEnvVars) > 0
      THEN LET done == [k |-> "resolved",
                        v |-> createErrorResponse(
                                Str(m_missing_env \o join(missingEnvVars)),
                                HTTP_STATUS_INTERNAL_SERVER_ERROR, configHeaders(cfg))]
           IN  [trace |-> <<"validateEnvironment", "done">>, proc |-> done,
                responses |-> race(cfg, << >>, done)]
      ELSE IF createClientThrows
      THEN LET done == [k |-> "rejected", v |-> Err("Error", c_boom)]
           IN  [trace |-> <<"validateEnvironment", "createClient", "done">>,
                proc |-> done, responses |-> race(cfg, << >>, done)]
      ELSE IF cfg.authenticate
      THEN [trace |-> <<"validateEnvironment", "createClient", "getUser">>,
            proc |-> [k |-> "getUser"], responses |-> << >>]
      ELSE [trace |-> <<"validateEnvironment", "createClient", "callback">>,
            proc |-> [k |-> "callback"], responses |-> << >>]

\* the handler that validates the method before it looks for a preflight
serve_methodFirst(cfg, env, method, createClientThrows) ==
  IF ~validateMethod(method, cfg.allowedMethods)
  THEN [trace |-> <<"validateMethod">>, timer |-> "off", proc |-> [k |-> "none"],
        responses |-> <<createErrorResponse(Str(m_method_not_allowed),
                                            HTTP_STATUS_METHOD_NOT_ALLOWED,
                                            configHeaders(cfg))>>]
  ELSE IF cfg.autoHandlePreflight /\ method = "OPTIONS"
  THEN [trace |-> <<"validateMethod", "preflight">>, timer |-> "off",
        proc |-> [k |-> "none"], responses |-> <<PreflightResponse(configHeaders(cfg))>>]
  ELSE LET r == processRequest(cfg, env, createClientThrows)
       IN  [trace |-> <<"validateMethod", "setTimeout">> \o r.trace, timer |-> "armed",
            proc |-> r.proc, responses |-> r.responses]

\* a handler that races processRequest against a timer it never starts
serve_noTimer(cfg, env, method, createClientThrows) ==
  IF cfg.autoHandlePreflight /\ method = "OPTIONS"
  THEN [trace |-> <<"preflight">>, timer |-> "off", proc |-> [k |-> "none"],
        responses |-> <<PreflightResponse(configHeaders(cfg))>>]
  ELSE IF ~validateMethod(method, cfg.allowedMethods)
  THEN [trace |-> <<"validateMethod">>, timer |-> "off", proc |-> [k |-> "none"],
        responses |-> <<createErrorResponse(Str(m_method_not_allowed),
                                            HTTP_STATUS_METHOD_NOT_ALLOWED,
                                            configHeaders(cfg))>>]
  ELSE LET r == processRequest(cfg, env, createClientThrows)
       IN  [trace |-> <<"validateMethod", "setTimeout">> \o r.trace, timer |-> "off",
            proc |-> r.proc, responses |-> r.responses]

\* the handler from its start to its first await
serve(cfg, env, method, createClientThrows) ==
  IF cfg.autoHandlePreflight /\ method = "OPTIONS"
  THEN [trace |-> <<"preflight">>, timer |-> "off", proc |-> [k |-> "none"],
        responses |-> <<PreflightResponse(configHeaders(cfg))>>]
  ELSE IF ~validateMethod(method, cfg.allowedMethods)
  THEN [trace |-> <<"validateMethod">>, timer |-> "off", proc |-> [k |-> "none"],
        responses |-> <<createErrorResponse(Str(m_method_not_allowed),
                                            HTTP_STATUS_METHOD_NOT_ALLOWED,
                                            configHeaders(cfg))>>]
  ELSE LET r == processRequest(cfg, env, createClientThrows)
       IN  [trace |-> <<"validateMethod", "setTimeout">> \o r.trace, timer |-> "armed",
            proc |-> r.proc, responses |-> r.responses]

ServerInit ==
  /\ conv = ConvIdle
  /\ cacheProxies = [d \in DBs |-> FALSE]
  /\ objs = << >>
  /\ proxies = << >>
  /\ proxyCache = [d \in DBs |-> EmptyMap]
  /\ builders = << >>
  /\ pick = NoPick
  /\ lastCall = NoCall
  /\ awaits = << >>
  /\ ChainsIdle
  /\ InvokeIdle
  /\ RestIdle
  /\ server \in [stage : {"listening"}, config : Configs, env : Environments,
                  method : {""}, trace : {<< >>}, timer : {"off"},
                  proc : {[k |-> "none"]}, auth : {Null}, user : {Undefined},
                  thrown : {Null},
                  responses : {<< >>}]

\* a request arrives: the handler runs up to its first await
Receive(method, createClientThrows) ==
  /\ server.stage = "listening"
  /\ LET r == serve(server.config, server.env, method, createClientThrows)
     IN  server' = [server EXCEPT !.stage = "handling", !.method = method,
                                  !.trace = r.trace, !.timer = r.timer,
                                  !.proc = r.proc, !.responses = r.responses]
  /\ UNCHANGED <<conv, facadeVars, chainVars, invocation, restVars>>

\* supabaseClient.auth.getUser() settles: the rest of the auth block, and the
\* call of the callback when a user was found
GetUserSettles(result) ==
  /\ server.stage = "handling"
  /\ server.proc.k = "getUser"
  /\ LET user == authenticated(result)
         done == [k |-> "resolved",
                  v |-> createErrorResponse(Str(m_unauthorized), HTTP_STATUS_UNAUTHORIZED,
                                            configHeaders(server.config))]
     IN  server' =
           IF user = Undefined
           THEN [server EXCEPT !.trace = @ \o <<"unauthorized", "done">>,
                               !.auth = result,
                               !.proc = done,
                               !.responses = race(server.config, @, done)]
           ELSE [server EXCEPT !.trace = Append(@, "callback"),
                               !.auth = result,
                               !.user = user,
                               !.proc = [k |-> "callback"]]
  /\ UNCHANGED <<conv, facadeVars, chainVars, invocation, restVars>>

\* the callback returns (or resolves to) a response
CallbackReturns(response) ==
  /\ server.stage = "handling"
  /\ server.proc.k = "callback"
  /\ LET done == [k |-> "resolved", v |-> response]
     IN  server' = [server EXCEPT !.trace = Append(@, "done"),
                                  !.proc = done,
                                  !.responses = race(server.config, @, done)]
  /\ UNCHANGED <<conv, facadeVars, chainVars, invocation, restVars>>

\* the callback throws or rejects
CallbackThrows(error) ==
  /\ server.stage = "handling"
  /\ server.proc.k = "callback"
  /\ LET done == callbackFailed(server.config, error)
     IN  server' = [server EXCEPT !.trace = Append(@, "done"),
                                  !.thrown = error,
                                  !.proc = done,
                                  !.responses = race(server.config, @, done)]
  /\ UNCHANGED <<conv, facadeVars, chainVars, invocation, restVars>>

\* timeoutMs has elapsed: the timer rejects timeoutPromise
TimerFires ==
  /\ server.stage = "handling"
  /\ server.timer = "armed"
  /\ server' = [server EXCEPT !.trace = Append(@, "timeout"),
                               !.timer = "fired",
                               !.responses = race(server.config, @, [k |-> "rejected", v |-> TimeoutError])]
  /\ UNCHANGED <<conv, facadeVars, chainVars, invocation, restVars>>

ServerNext ==
  \/ \E method \in Methods, createClientThrows \in BOOLEAN :
        Receive(method, createClientThrows)
  \/ \E result \in GetUserResults : GetUserSettles(result)
  \/ \E response \in CallbackResponses : CallbackReturns(response)
  \/ \E error \in CallbackErrors : CallbackThrows(error)
  \/ TimerFires

SpecServer == ServerInit /\ [][ServerNext]_vars

\* the same handler with the timer of setTimeout(..., timeoutMs) firing once
\* the finite timeoutMs has elapsed; getUser and the callback may never settle
SpecServerFair == ServerInit /\ [][ServerNext]_vars /\ WF_vars(TimerFires)

\* ------------------------------------------------------------------------
\* FunctionsClient.invoke
\* ------------------------------------------------------------------------
\* 'my-fn'
f_my_fn ==
  <<"m", "y", "-", "f", "n">>

\* 'process-job'
f_process_job ==
  <<"p", "r", "o", "c", "e", "s", "s", "-", "j", "o", "b">>

\* 'No data received from Edge Function.'
m_no_data ==
  <<"N", "o", " ", "d", "a", "t", "a", " ", "r", "e", "c", "e", "i", "v",
    "e", "d", " ", "f", "r", "o", "m", " ", "E", "d", "g", "e", " ", "F",
    "u", "n", "c", "t", "i", "o", "n", ".">>

\* 'An unknown error occurred.'
m_unknown ==
  <<"A", "n", " ", "u", "n", "k", "n", "o", "w", "n", " ", "e", "r", "r",
    "o", "r", " ", "o", "c", "c", "u", "r", "r", "e", "d", ".">>

\* 'An unexpected error occurred while invoking '
m_unexpected ==
  <<"A", "n", " ", "u", "n", "e", "x", "p", "e", "c", "t", "e", "d", " ",
    "e", "r", "r", "o", "r", " ", "o", "c", "c", "u", "r", "r", "e", "d",
    " ", "w", "h", "i", "l", "e", " ", "i", "n", "v", "o", "k", "i", "n",
    "g", " ">>

\* 'http error message'
m_http ==
  <<"h", "t", "t", "p", " ", "e", "r", "r", "o", "r", " ", "m", "e", "s",
    "s", "a", "g", "e">>

\* 'network failure'
m_network ==
  <<"n", "e", "t", "w", "o", "r", "k", " ", "f", "a", "i", "l", "u", "r",
    "e">>

\* 'Custom error msg'
m_custom_error ==
  <<"C", "u", "s", "t", "o", "m", " ", "e", "r", "r", "o", "r", " ", "m",
    "s", "g">>

\* 'Fallback message'
m_fallback ==
  <<"F", "a", "l", "l", "b", "a", "c", "k", " ", "m", "e", "s", "s", "a",
    "g", "e">>

\* 'already wrapped'
m_already ==
  <<"a", "l", "r", "e", "a", "d", "y", " ", "w", "r", "a", "p", "p", "e",
    "d">>

\* 'string error'
m_string_error ==
  <<"s", "t", "r", "i", "n", "g", " ", "e", "r", "r", "o", "r">>

\* 'Success'
m_success ==
  <<"S", "u", "c", "c", "e", "s", "s">>

\* 'E001'
m_E001 ==
  <<"E", "0", "0", "1">>

\* 'data'
k_data ==
  <<"d", "a", "t", "a">>

\* 'error'
k_error ==
  <<"e", "r", "r", "o", "r">>

\* 'code'
k_code ==
  <<"c", "o", "d", "e">>

\* 'details'
k_details ==
  <<"d", "e", "t", "a", "i", "l", "s">>

\* 'id'
k_id ==
  <<"i", "d">>

\* `key in o` for a plain object o
has(o, key) == \E i \in 1..Len(o.kv) : o.kv[i][1] = key

\* o[key]: the property of a plain object, undefined when o has none
get(o, key) ==
  IF o.t = "object" /\ has(o, key)
  THEN o.kv[CHOOSE i \in 1..Len(o.kv) : o.kv[i][1] = key][2]
  ELSE Undefined

\* a ?? b
orElse(a, b) == IF a \in {Null, Undefined} THEN b ELSE a

\* new EdgeFunctionError(message, functionName, code, details)
EdgeFunctionError(message, functionName, code, details) ==
  [t |-> "error", cls |-> "EdgeFunctionError", message |-> message,
   functionName |-> functionName, code |-> code, details |-> details]

\* new EdgeFunctionNoDataError(functionName)
EdgeFunctionNoDataError(functionName) ==
  [t |-> "error", cls |-> "EdgeFunctionNoDataError", message |-> Str(m_no_data),
   functionName |-> functionName, code |-> Undefined, details |-> Undefined]

\* error instanceof EdgeFunctionError
isEdgeFunctionError(error) ==
  error.t = "error" /\ error.cls \in {"EdgeFunctionError", "EdgeFunctionNoDataError"}

\* the TypeError of reading a property of null or undefined, or of `in` on a
\* primitive
TypeError == Err("TypeError", <<"T", "y", "p", "e", "E", "r", "r", "o", "r">>)

Resolved(v) == [k |-> "resolved", v |-> v]
Rejected(v) == [k |-> "rejected", v |-> v]

\* an outer catch that lets every error through as it is
outerCatch_rethrow(functionName, error) == error

\* the outer catch of invoke: what invoke rejects with when error was thrown
\* inside its try block
outerCatch(functionName, error) ==
  IF isEdgeFunctionError(error) THEN error
  ELSE EdgeFunctionError(
         IF error.t = "error" THEN Str(error.message)
         ELSE Str(m_unexpected \o <<"'">> \o functionName \o <<"'", ".">>),
         functionName, Undefined, Undefined)

\* the success case: result.error is null or undefined
success(functionName, data) ==
  IF data \in {Null, Undefined}
  THEN Rejected(outerCatch(functionName, EdgeFunctionNoDataError(functionName)))
  ELSE IF data.t = "object" /\ has(data, k_data) /\ has(data, c_message)
  THEN Resolved(get(data, k_data))
  ELSE Resolved(data)

\* an error result that is not a FunctionsHttpError
otherError(functionName, error) ==
  IF error.t \notin {"error", "object"}
  THEN Rejected(outerCatch(functionName, TypeError))
  ELSE Rejected(outerCatch(functionName,
         EdgeFunctionError(
           IF error.t = "error" THEN Str(error.message)
           ELSE IF has(error, c_message) THEN get(error, c_message)
           ELSE Str(m_unknown),
           functionName, Undefined, Undefined)))

isFunctionsHttpError(error) == error.t = "error" /\ error.cls = "FunctionsHttpError"

\* response.json() of a FunctionsHttpError resolved with errorResponse
parsed(functionName, error, errorResponse) ==
  IF errorResponse \in {Null, Undefined}
  THEN Rejected(outerCatch(functionName,
         EdgeFunctionError(Str(error.message), functionName, Undefined, Undefined)))
  ELSE Rejected(outerCatch(functionName,
         EdgeFunctionError(
           orElse(get(errorResponse, k_error),
                  orElse(get(errorResponse, c_message), Str(error.message))),
           functionName, get(errorResponse, k_code), get(errorResponse, k_details))))

\* response.json() of a FunctionsHttpError rejected with parseError
parseFailed(functionName, error, parseError) ==
  IF isEdgeFunctionError(parseError)
  THEN Rejected(outerCatch(functionName, parseError))
  ELSE Rejected(outerCatch(functionName,
         EdgeFunctionError(Str(error.message), functionName, Undefined, Undefined)))

FunctionNames == {f_my_fn, f_process_job}

\* what the edge function may hand back as data
DataValues ==
  { Null, Undefined, Str(m_ok), Num(0),
    Obj(1, <<<<k_id, Num(1)>>>>),
    Obj(1, <<<<k_data, Obj(2, <<<<k_id, Num(1)>>>>)>>>>),
    Obj(1, <<<<k_data, Obj(2, <<<<k_id, Num(1)>>>>)>>, <<c_message, Str(m_success)>>>>),
    Obj(1, <<<<k_data, Num(0)>>, <<c_message, Str(m_success)>>>>),
    Obj(1, <<<<k_data, Null>>, <<c_message, Str(m_success)>>>>),
    Obj(1, <<<<k_data, Undefined>>, <<c_message, Str(m_success)>>>>) }

\* what the underlying invoke may report as error
ErrorValues ==
  { Null, Undefined,
    Err("FunctionsHttpError", m_http),
    Err("Error", m_network),
    Obj(3, <<<<k_code, Str(m_E001)>>>>),
    Obj(3, <<<<c_message, Str(m_network)>>>>),
    Str(m_string_error) }

\* what the underlying invoke may resolve with
InvokeResults ==
  {Null, Undefined} \cup [data : DataValues, error : ErrorValues]

\* what the underlying invoke or response.json() may throw
Thrown ==
  { EdgeFunctionError(Str(m_already), f_my_fn, Undefined, Undefined),
    Err("Error", c_boom), TypeError, Str(m_string_error), Undefined }

\* what response.json() may resolve with
ErrorResponses ==
  { Null, Num(0), Obj(4, << >>),
    Obj(4, <<<<k_error, Str(m_custom_error)>>, <<k_code, Str(m_E001)>>,
             <<k_details, Obj(5, <<<<k_id, Num(1)>>>>)>>>>),
    Obj(4, <<<<c_message, Str(m_fallback)>>>>),
    Obj(4, <<<<k_error, Num(0)>>>>),
    Obj(4, <<<<k_error, Null>>, <<c_message, Null>>>>) }

InvokeInit ==
  /\ invocation \in [stage : {"invoking"}, functionName : FunctionNames,
                     underlying : {Pending}, json : {Pending}, outcome : {Pending}]
  /\ conv = [stage |-> "idle", input |-> << >>, snake |-> << >>, camel |-> << >>,
             xsnake |-> << >>, xcamel |-> << >>]
  /\ cacheProxies = [d \in DBs |-> FALSE]
  /\ objs = << >> /\ proxies = << >> /\ builders = << >>
  /\ proxyCache = [d \in DBs |-> << >>]
  /\ pick = <<"", << >>>>
  /\ lastCall = NoCall
  /\ awaits = << >>
  /\ ChainsIdle /\ ServerIdle
  /\ RestIdle

\* `await this.supabase.functions.invoke(...)` resolved with result
UnderlyingResolves(result) ==
  /\ invocation.stage = "invoking"
  /\ LET fn == invocation.functionName
     IN  invocation' =
           IF result \in {Null, Undefined}
           THEN [invocation EXCEPT !.stage = "settled",
                                   !.underlying = Resolved(result),
                                   !.outcome = Rejected(outerCatch(fn, TypeError))]
           ELSE IF result.error \in {Null, Undefined}
           THEN [invocation EXCEPT !.stage = "settled",
                                   !.underlying = Resolved(result),
                                   !.outcome = success(fn, result.data)]
           ELSE IF isFunctionsHttpError(result.error)
           THEN [invocation EXCEPT !.stage = "parsing",
                                   !.underlying = Resolved(result)]
           ELSE [invocation EXCEPT !.stage = "settled",
                                   !.underlying = Resolved(result),
                                   !.outcome = otherError(fn, result.error)]
  /\ UNCHANGED <<facadeVars, chainVars, conv, server, restVars>>

\* `await this.supabase.functions.invoke(...)` threw reason
UnderlyingRejects(reason) ==
  /\ invocation.stage = "invoking"
  /\ invocation' = [invocation EXCEPT
                      !.stage = "settled",
                      !.underlying = Rejected(reason),
                      !.outcome = Rejected(outerCatch(invocation.functionName, reason))]
  /\ UNCHANGED <<facadeVars, chainVars, conv, server, restVars>>

\* `await response.json()` resolved with errorResponse
JsonResolves(errorResponse) ==
  /\ invocation.stage = "parsing"
  /\ invocation' = [invocation EXCEPT
                      !.stage = "settled",
                      !.json = Resolved(errorResponse),
                      !.outcome = parsed(invocation.functionName,
                                         invocation.underlying.v.error, errorResponse)]
  /\ UNCHANGED <<facadeVars, chainVars, conv, server, restVars>>

\* `await response.json()` threw parseError
JsonRejects(parseError) ==
  /\ invocation.stage = "parsing"
  /\ invocation' = [invocation EXCEPT
                      !.stage = "settled",
                      !.json = Rejected(parseError),
                      !.outcome = parseFailed(invocation.functionName,
                                              invocation.underlying.v.error, parseError)]
  /\ UNCHANGED <<facadeVars, chainVars, conv, server, restVars>>

InvokeNext ==
  \/ \E result \in InvokeResults : UnderlyingResolves(result)
  \/ \E reason \in Thrown : UnderlyingRejects(reason)
  \/ \E errorResponse \in ErrorResponses : JsonResolves(errorResponse)
  \/ \E parseError \in Thrown : JsonRejects(parseError)

SpecInvoke == InvokeInit /\ [][InvokeNext]_vars

\* ------------------------------------------------------------------------
\* FunctionsClient.handleInvoke
\* ------------------------------------------------------------------------
\* what invokeCall may resolve with (any function may be passed, not only one
\* that calls invoke)
InvokeCallData ==
  { Undefined, Str(m_ok), Obj(1, <<<<k_id, Num(1)>>>>) }

\* what invokeCall, onSuccess and onError may throw or reject with
CallbackThrown ==
  Thrown \cup { EdgeFunctionNoDataError(f_my_fn),
                EdgeFunctionError(Str(m_custom_error), f_process_job, Str(m_E001), Undefined) }

\* the catch block of handleInvoke: the callback it calls for error, if any
catchCalls(error) ==
  IF isEdgeFunctionError(error) THEN <<<<"onError", error>>>> ELSE << >>

HandleInit ==
  /\ handling = [stage |-> "invokeCall", invoked |-> Pending, called |-> << >>,
                 outcome |-> Pending]
  /\ conv = [stage |-> "idle", input |-> << >>, snake |-> << >>, camel |-> << >>,
             xsnake |-> << >>, xcamel |-> << >>]
  /\ cacheProxies = [d \in DBs |-> FALSE]
  /\ objs = << >> /\ proxies = << >> /\ builders = << >>
  /\ proxyCache = [d \in DBs |-> << >>]
  /\ pick = <<"", << >>>>
  /\ lastCall = NoCall
  /\ awaits = << >>
  /\ ChainsIdle /\ ServerIdle /\ InvokeIdle
  /\ storage = [stage |-> "idle"]
  /\ limiter = [stage |-> "idle"]

\* the error reached the catch block: onError is called for an
\* EdgeFunctionError, anything else is thrown on
Caught(error, h) ==
  IF catchCalls(error) = << >>
  THEN [h EXCEPT !.stage = "settled", !.outcome = Rejected(error)]
  ELSE [h EXCEPT !.stage = "onError", !.called = @ \o catchCalls(error)]

\* `await invokeCall()` resolved with data: onSuccess is called with it
InvokeCallResolves(data) ==
  /\ handling.stage = "invokeCall"
  /\ handling' = [handling EXCEPT !.stage = "onSuccess",
                                  !.invoked = Resolved(data),
                                  !.called = Append(@, <<"onSuccess", data>>)]
  /\ UNCHANGED <<facadeVars, chainVars, conv, server, invocation, storage, limiter>>

\* `await invokeCall()` threw error
InvokeCallRejects(error) ==
  /\ handling.stage = "invokeCall"
  /\ handling' = Caught(error, [handling EXCEPT !.invoked = Rejected(error)])
  /\ UNCHANGED <<facadeVars, chainVars, conv, server, invocation, storage, limiter>>

\* `await onSuccess(data)` returned
OnSuccessReturns ==
  /\ handling.stage = "onSuccess"
  /\ handling' = [handling EXCEPT !.stage = "settled", !.outcome = Resolved(Undefined)]
  /\ UNCHANGED <<facadeVars, chainVars, conv, server, invocation, storage, limiter>>

\* `await onSuccess(data)` threw error: the call is inside the try block
OnSuccessThrows(error) ==
  /\ handling.stage = "onSuccess"
  /\ handling' = Caught(error, handling)
  /\ UNCHANGED <<facadeVars, chainVars, conv, server, invocation, storage, limiter>>

\* `await onError(error)` returned
OnErrorReturns ==
  /\ handling.stage = "onError"
  /\ handling' = [handling EXCEPT !.stage = "settled", !.outcome = Resolved(Undefined)]
  /\ UNCHANGED <<facadeVars, chainVars, conv, server, invocation, storage, limiter>>

\* `await onError(error)` threw error: the call is inside the catch block
OnErrorThrows(error) ==
  /\ handling.stage = "onError"
  /\ handling' = [handling EXCEPT !.stage = "settled", !.outcome = Rejected(error)]
  /\ UNCHANGED <<facadeVars, chainVars, conv, server, invocation, storage, limiter>>

HandleNext ==
  \/ \E data \in InvokeCallData : InvokeCallResolves(data)
  \/ \E error \in CallbackThrown : InvokeCallRejects(error)
  \/ OnSuccessReturns
  \/ \E error \in CallbackThrown : OnSuccessThrows(error)
  \/ OnErrorReturns
  \/ \E error \in CallbackThrown : OnErrorThrows(error)

SpecHandle == HandleInit /\ [][HandleNext]_vars

\* ------------------------------------------------------------------------
\* UserStorageManager
\* ------------------------------------------------------------------------
\* user ids: one is a prefix of the other
u_1 == <<"u", "1">>
u_10 == <<"u", "1", "0">>

\* caller-supplied paths: '', ' ', 'f', 'd/f', 'd/', '../f'
p_empty == << >>
p_blank == <<" ">>
p_f == <<"f">>
p_d_f == <<"d", "/", "f">>
p_d == <<"d", "/">>
p_up_f == <<".", ".", "/", "f">>

CallerPaths == {p_empty, p_blank, p_f, p_d_f, p_d, p_up_f}

\* s.startsWith(prefix)
startsWith(s, prefix) ==
  Len(s) >= Len(prefix) /\ SubSeq(s, 1, Len(prefix)) = prefix

\* s.split('/')
RECURSIVE split(_)
split(s) ==
  IF \A i \in 1..Len(s) : s[i] # "/" THEN <<s>>
  ELSE LET i == CHOOSE k \in 1..Len(s) :
                  s[k] = "/" /\ \A j \in 1..(k - 1) : s[j] # "/"
       IN  <<SubSeq(s, 1, i - 1)>> \o split(SubSeq(s, i + 1, Len(s)))

\* parts.join('/')
RECURSIVE joinSlash(_)
joinSlash(parts) ==
  IF parts = << >> THEN << >>
  ELSE IF Len(parts) = 1 THEN parts[1]
  ELSE parts[1] \o <<"/">> \o joinSlash(Tail(parts))

\* s.trim() === ''
isBlank(s) == \A i \in 1..Len(s) : s[i] = " "

\* a path that is handed on as the caller gave it
fullPath_unscoped(userFolder, filePath) == filePath

\* `${userFolder}/${filePath}`
fullPath(userFolder, filePath) == userFolder \o <<"/">> \o filePath

\* the operations of the manager with their path arguments p; a file is
\* given by its name
StorageOps ==
  [name : {"listFiles", "downloadFile", "getPublicUrl", "createSignedUrl", "deleteFile",
           "updateFile", "getFileMetadata", "fileExists"},
   p : {<<q>> : q \in CallerPaths}, fileId : {Null}]
  \cup [name : {"uploadFile"},
        p : {<<sub, p_f>> : sub \in {p_empty, p_d_f, p_up_f}},
        fileId : {Null, Str(p_d_f)}]
  \cup [name : {"uploadMultipleFiles"},
        p : {<<sub, p_f, p_d_f>> : sub \in {p_empty, p_up_f}}, fileId : {Null}]
  \cup [name : {"createSignedUrls", "deleteMultipleFiles", "moveFile", "copyFile"},
        p : {<<p_f, p_up_f>>, <<p_d_f, p_empty>>}, fileId : {Null}]
  \cup [name : {"getTotalStorageUsed"}, p : {<< >>}, fileId : {Null}]

\* the single operations a call of op carries out, in order
steps(op) ==
  CASE op.name = "uploadMultipleFiles" ->
         [i \in 1..(Len(op.p) - 1) |->
            [name |-> "uploadFile", p |-> <<op.p[1], op.p[i + 1]>>, fileId |-> Null]]
    [] op.name = "fileExists" -> <<[op EXCEPT !.name = "getFileMetadata"]>>
    [] op.name = "getTotalStorageUsed" ->
         <<[name |-> "listFiles", p |-> <<p_empty>>, fileId |-> Null]>>
    [] OTHER -> <<op>>

\* getFileMetadata rejects an empty or blank path before it asks for the user
invalidPath(op) ==
  op.name \in {"getFileMetadata", "fileExists"} /\ (op.p[1] = << >> \/ isBlank(op.p[1]))

\* what getUser may settle with
StorageUserResults ==
  [k : {"resolved"}, user : {Null, [id |-> u_1], [id |-> u_10]},
   error : {Null, Err("Error", m_unauthorized)}]
  \cup {[k |-> "rejected", user |-> Null, error |-> Err("Error", c_boom)]}

\* getUserId returns: `error || !user` does not hold
hasUser(result) == result.k = "resolved" /\ result.error = Null /\ result.user # Null

\* the call on supabaseClient.storage.from(bucketName) that a single
\* operation makes for the user's folder, or none when it throws before
storageCall(op, userFolder) ==
  CASE op.name = "uploadFile" ->
         [method |-> "upload",
          paths |-> <<IF op.p[1] # << >>
                      THEN userFolder \o <<"/">> \o op.p[1] \o <<"/">>
                             \o (IF op.fileId = Null THEN op.p[2] ELSE op.fileId.s)
                      ELSE userFolder \o <<"/">>
                             \o (IF op.fileId = Null THEN op.p[2] ELSE op.fileId.s)>>]
    [] op.name = "listFiles" ->
         [method |-> "list",
          paths |-> <<IF op.p[1] # << >> THEN fullPath(userFolder, op.p[1])
                      ELSE userFolder>>]
    [] op.name = "downloadFile" ->
         [method |-> "download", paths |-> <<fullPath(userFolder, op.p[1])>>]
    [] op.name = "getPublicUrl" ->
         [method |-> "getPublicUrl", paths |-> <<fullPath(userFolder, op.p[1])>>]
    [] op.name = "createSignedUrl" ->
         [method |-> "createSignedUrl", paths |-> <<fullPath(userFolder, op.p[1])>>]
    [] op.name = "createSignedUrls" ->
         [method |-> "createSignedUrls",
          paths |-> [i \in 1..Len(op.p) |-> fullPath(userFolder, op.p[i])]]
    [] op.name = "deleteFile" ->
         [method |-> "remove", paths |-> <<fullPath(userFolder, op.p[1])>>]
    [] op.name = "deleteMultipleFiles" ->
         [method |-> "remove",
          paths |-> [i \in 1..Len(op.p) |-> fullPath(userFolder, op.p[i])]]
    [] op.name = "updateFile" ->
         [method |-> "upload", paths |-> <<fullPath(userFolder, op.p[1])>>]
    [] op.name = "moveFile" ->
         [method |-> "move",
          paths |-> <<fullPath(userFolder, op.p[1]), fullPath(userFolder, op.p[2])>>]
    [] op.name = "copyFile" ->
         [method |-> "copy",
          paths |-> <<fullPath(userFolder, op.p[1]), fullPath(userFolder, op.p[2])>>]
    [] op.name = "getFileMetadata" ->
         LET pathParts == split(fullPath(userFolder, op.p[1]))
             fileName == pathParts[Len(pathParts)]
             folderPath == joinSlash(SubSeq(pathParts, 1, Len(pathParts) - 1))
         IN  IF fileName = << >> THEN [method |-> "none", paths |-> << >>]
             ELSE [method |-> "list", paths |-> <<folderPath>>]

\* how the call of op ends when one of its steps has failed
failed(op) ==
  IF op.name = "fileExists" THEN Resolved(Bool(FALSE)) ELSE Rejected(Inst("StorageError", 0))

\* how the call of op ends when all its steps are done
done(op) ==
  IF op.name = "fileExists" THEN Resolved(Bool(TRUE)) ELSE Resolved(Inst("result", 0))

StorageInit ==
  /\ storage = [stage |-> "ready", op |-> Null, todo |-> << >>, calls |-> << >>,
                outcome |-> Pending]
  /\ conv = [stage |-> "idle", input |-> << >>, snake |-> << >>, camel |-> << >>,
             xsnake |-> << >>, xcamel |-> << >>]
  /\ cacheProxies = [d \in DBs |-> FALSE]
  /\ objs = << >> /\ proxies = << >> /\ builders = << >>
  /\ proxyCache = [d \in DBs |-> << >>]
  /\ pick = <<"", << >>>>
  /\ lastCall = NoCall
  /\ awaits = << >>
  /\ ChainsIdle /\ ServerIdle /\ InvokeIdle
  /\ handling = [stage |-> "idle"]
  /\ limiter = [stage |-> "idle"]

\* the caller calls an operation of the manager
StorageCall(op) ==
  /\ storage.stage = "ready"
  /\ storage' = IF invalidPath(op)
                THEN [storage EXCEPT !.stage = "settled", !.op = op,
                                     !.outcome = failed(op)]
                ELSE [storage EXCEPT !.stage = "getUser", !.op = op, !.todo = steps(op)]
  /\ UNCHANGED <<facadeVars, chainVars, conv, server, invocation, handling, limiter>>

\* one step is over: the next one asks for the user again
stepDone(st) ==
  IF Len(st.todo) = 1
  THEN [st EXCEPT !.stage = "settled", !.todo = << >>, !.outcome = done(st.op)]
  ELSE [st EXCEPT !.stage = "getUser", !.todo = Tail(@)]

\* `await this.supabaseClient.auth.getUser()` of the current step settled
StorageUserSettles(result) ==
  /\ storage.stage = "getUser"
  /\ storage' =
       IF ~hasUser(result)
       THEN [storage EXCEPT !.stage = "settled", !.outcome = failed(storage.op)]
       ELSE LET call == storageCall(Head(storage.todo), result.user.id)
                made == [storage EXCEPT !.calls = Append(@, [method |-> call.method,
                                                             paths |-> call.paths,
                                                             auth |-> result])]
            IN  IF call.method = "none"
                THEN [storage EXCEPT !.stage = "settled", !.outcome = failed(storage.op)]
                ELSE IF call.method = "getPublicUrl"
                THEN stepDone(made)
                ELSE [made EXCEPT !.stage = "storage"]
  /\ UNCHANGED <<facadeVars, chainVars, conv, server, invocation, handling, limiter>>

\* the storage call of the current step settled, with or without error
StorageSettles(ok) ==
  /\ storage.stage = "storage"
  /\ storage' = IF ok THEN stepDone(storage)
                ELSE [storage EXCEPT !.stage = "settled", !.outcome = failed(storage.op)]
  /\ UNCHANGED <<facadeVars, chainVars, conv, server, invocation, handling, limiter>>

StorageNext ==
  \/ \E op \in StorageOps : StorageCall(op)
  \/ \E result \in StorageUserResults : StorageUserSettles(result)
  \/ \E ok \in BOOLEAN : StorageSettles(ok)

SpecStorage == StorageInit /\ [][StorageNext]_vars

\* ------------------------------------------------------------------------
\* RateLimiter
\* ------------------------------------------------------------------------
Identifiers == {"user1", "user2"}

\* a limiter that keeps one list for all identifiers
userRequests_shared(requests, identifier) == requests["user1"] \o requests["user2"]

\* this.requests.get(identifier) || []
userRequests(requests, identifier) == requests[identifier]

\* a limiter that records the attempt before it decides
isAllowed_recordsDenied(l, identifier) ==
  LET windowStart == l.now - l.windowMs
      recentRequests == SelectSeq(userRequests(l.requests, identifier),
                                  LAMBDA time : time > windowStart)
  IN  [allowed |-> Len(recentRequests) < l.maxRequests,
       requests |-> [l.requests EXCEPT ![identifier] = Append(recentRequests, l.now)]]

\* isAllowed(identifier) at the time l.now: the result and the map afterwards
isAllowed(l, identifier) ==
  LET windowStart == l.now - l.windowMs
      recentRequests == SelectSeq(userRequests(l.requests, identifier),
                                  LAMBDA time : time > windowStart)
  IN  IF Len(recentRequests) >= l.maxRequests
      THEN [allowed |-> FALSE, requests |-> l.requests]
      ELSE [allowed |-> TRUE,
            requests |-> [l.requests EXCEPT ![identifier] = Append(recentRequests, l.now)]]

LimiterInit ==
  /\ limiter \in [stage : {"running"}, maxRequests : 1..MaxRequests,
                  windowMs : 1..MaxWindow, now : {0},
                  requests : {[id \in Identifiers |-> << >>]}, log : {<< >>}]
  /\ conv = [stage |-> "idle", input |-> << >>, snake |-> << >>, camel |-> << >>,
             xsnake |-> << >>, xcamel |-> << >>]
  /\ cacheProxies = [d \in DBs |-> FALSE]
  /\ objs = << >> /\ proxies = << >> /\ builders = << >>
  /\ proxyCache = [d \in DBs |-> << >>]
  /\ pick = <<"", << >>>>
  /\ lastCall = NoCall
  /\ awaits = << >>
  /\ ChainsIdle /\ ServerIdle /\ InvokeIdle
  /\ handling = [stage |-> "idle"]
  /\ storage = [stage |-> "idle"]

\* Date.now() advances by a millisecond
Tick ==
  /\ limiter.now < MaxTime
  /\ limiter' = [limiter EXCEPT !.now = @ + 1]
  /\ UNCHANGED <<facadeVars, chainVars, conv, server, invocation, handling, storage>>

\* a call of isAllowed(identifier); the log keeps what was asked and answered
IsAllowed(identifier) ==
  /\ Len(limiter.log) < MaxCalls
  /\ LET r == isAllowed(limiter, identifier)
     IN  limiter' = [limiter EXCEPT
                       !.requests = r.requests,
                       !.log = Append(@, [identifier |-> identifier, time |-> limiter.now,
                                          allowed |-> r.allowed])]
  /\ UNCHANGED <<facadeVars, chainVars, conv, server, invocation, handling, storage>>

LimiterNext ==
  \/ Tick
  \/ \E identifier \in Identifiers : IsAllowed(identifier)

SpecLimiter == LimiterInit /\ [][LimiterNext]_vars

\* ------------------------------------------------------------------------
\* Properties
\* ------------------------------------------------------------------------
\* the strings the facade is to leave alone: the wildcard, or a string with
\* an underscore, a parenthesis, a dot, `->` or `::`
LeftAlone(s) ==
  \/ Len(s) = 1 /\ s[1] = "*"
  \/ \E i \in 1..Len(s) : s[i] \in {"_", "(", ")", "."}
  \/ \E i \in 1..(Len(s) - 1) : s[i] = "-" /\ s[i + 1] = ">"
  \/ \E i \in 1..(Len(s) - 1) : s[i] = ":" /\ s[i + 1] = ":"

\* r is s with `_` before every uppercase letter and all letters lowercased
SnakeOf(s, r) ==
  LET ups(n) == Cardinality({j \in 1..n : IsUpper(s[j])})
  IN  /\ Len(r) = Len(s) + ups(Len(s))
      /\ \A i \in 1..Len(s) :
           /\ r[i + ups(i)] = toLowerCase(s[i])
           /\ IsUpper(s[i]) => r[i + ups(i) - 1] = "_"

FacadeCall == lastCall.kind = "call" /\ lastCall.via = "proxy"

ColumnCall ==
  /\ FacadeCall
  /\ Len(lastCall.args) >= 1
  /\ lastCall.args[1].t = "string"

C2_EnvelopeTransformed ==
  \A a \in 1..Len(awaits) :
    (awaits[a].via = "proxy" /\ awaits[a].under.k = "fulfilled") =>
      LET under == awaits[a].under.v
          got == awaits[a].outcome
      IN  /\ got.k = "fulfilled"
          /\ DOMAIN got.v = DOMAIN under
          /\ got.v.data = IF under.data = Null THEN Null
                          ELSE keysToCamelCase(under.data)
          /\ got.v.error = under.error
          /\ got.v.count = under.count
          /\ got.v.status = under.status
          /\ got.v.statusText = under.statusText

\* an await resolved with rows whose keys were converted and with an
\* underlying count and status
C2_Witness ==
  \E a \in 1..Len(awaits) :
    /\ awaits[a].via = "proxy"
    /\ awaits[a].under.k = "fulfilled"
    /\ awaits[a].under.v.data.t = "object"
    /\ awaits[a].outcome.v.data =
         Obj(0, <<<<c_metaData, Obj(0, <<<<c_innerKey, Num(1)>>>>)>>>>)
    /\ awaits[a].outcome.v.count = Num(1)

\* no key of a plain object or array, at any depth, has an uppercase letter
RECURSIVE KeysLowercase(_)
KeysLowercase(v) ==
  IF v.t = "object"
  THEN \A i \in 1..Len(v.kv) :
         /\ \A j \in 1..Len(v.kv[i][1]) : ~IsUpper(v.kv[i][1][j])
         /\ KeysLowercase(v.kv[i][2])
  ELSE IF v.t = "array"
       THEN \A i \in 1..Len(v.items) : KeysLowercase(v.items[i])
       ELSE TRUE

\* C3: insert, update and upsert of the facade and of the explicit builder
\* hand the underlying method the payload with all its keys, at every depth,
\* in snake_case, and upsert hands on its options object as it was given.
C3_PayloadConverted ==
  (lastCall.kind = "call" /\ lastCall.umethod \in PayloadMethods) =>
    /\ lastCall.umethod = lastCall.method
    /\ lastCall.uargs[1] = keysToSnakeCase(lastCall.args[1])
    /\ KeysLowercase(lastCall.uargs[1])
    /\ (lastCall.umethod = "upsert" /\ Len(lastCall.args) >= 2) =>
         /\ Len(lastCall.uargs) >= 2
         /\ lastCall.uargs[2] = lastCall.args[2]

\* the explicit builder upserted two rows with options
C3_Witness ==
  /\ lastCall.kind = "call"
  /\ lastCall.via = "explicit"
  /\ lastCall.umethod = "upsert"
  /\ lastCall.args = <<BulkPayload, UpsertOptions>>
  /\ lastCall.uargs[1] # lastCall.args[1]
  /\ lastCall.uargs[2] = UpsertOptions

\* C4: a string first argument that is `*`, has an underscore or has any of
\* `( ) . -> ::` reaches the underlying method of the same name unmodified.
C4_ExcludedColumnsUntouched ==
  (ColumnCall /\ LeftAlone(lastCall.args[1].s)) =>
    /\ lastCall.umethod = lastCall.method
    /\ lastCall.uargs[1] = lastCall.args[1]

\* an `or` filter expression went through the facade
C4_Witness ==
  /\ ColumnCall
  /\ lastCall.method = "or"
  /\ lastCall.args[1] = Str(s_or_filter)
  /\ lastCall.uargs[1] = Str(s_or_filter)

\* C5: on a db instance with cacheProxies, no underlying object has two
\* wrappers, and a call whose underlying method returns the object it was
\* called on returns the facade it was called on.
C5_OneWrapperPerObject ==
  /\ \A p, q \in 1..Len(proxies) :
       (/\ proxies[p].db = proxies[q].db
        /\ cacheProxies[proxies[p].db]
        /\ proxies[p].target = proxies[q].target) => p = q
  /\ (/\ FacadeCall
      /\ cacheProxies[proxies[lastCall.proxy].db]
      /\ lastCall.ures.k = "object"
      /\ lastCall.ures.o = lastCall.uobj) =>
       lastCall.ret = [k |-> "proxy", p |-> lastCall.proxy]

\* throwOnError() on a caching facade returned that facade while the db
\* instance holds wrappers of two objects
C5_Witness ==
  /\ FacadeCall
  /\ lastCall.method = "throwOnError"
  /\ cacheProxies[proxies[lastCall.proxy].db]
  /\ lastCall.ures = [k |-> "object", o |-> lastCall.uobj]
  /\ lastCall.ret.p = lastCall.proxy
  /\ Cardinality(DOMAIN proxyCache[proxies[lastCall.proxy].db]) >= 2

\* C6: when the underlying `then` rejects, or throws, with a reason, the
\* await of the facade rejects with that very reason, and the underlying
\* `then` was called once for the await.
C6_RejectionUnchanged ==
  \A a \in 1..Len(awaits) :
    awaits[a].via = "proxy" =>
      /\ awaits[a].thenCalls <= 1
      /\ awaits[a].under.k \in {"rejected", "threw"} =>
           /\ awaits[a].thenCalls = 1
           /\ awaits[a].outcome = [k |-> "rejected", v |-> awaits[a].under.v]

\* the underlying rejected with an Error object and the await rejected with it
C6_Witness ==
  \E a \in 1..Len(awaits) :
    /\ awaits[a].via = "proxy"
    /\ awaits[a].under = [k |-> "rejected", v |-> Inst("Error", 21)]
    /\ awaits[a].outcome = [k |-> "rejected", v |-> Inst("Error", 21)]

\* C7: a first argument that is not a string, a plain object or an array,
\* and every argument after the first, reaches the underlying method as the
\* identical value.
C7_OtherArgumentsIdentical ==
  FacadeCall =>
    /\ Len(lastCall.uargs) = Len(lastCall.args)
    /\ \A i \in 1..Len(lastCall.args) :
         (i > 1 \/ lastCall.args[i].t \notin {"string", "object", "array"}) =>
           lastCall.uargs[i] = lastCall.args[i]

\* order('createdAt', { foreignTable: 'userPosts' }) kept its options object
C7_Witness ==
  /\ FacadeCall
  /\ lastCall.method = "order"
  /\ lastCall.args = <<Str(c_createdAt), OrderOptions>>
  /\ lastCall.uargs[1] # lastCall.args[1]
  /\ lastCall.uargs[2] = OrderOptions

\* C8: the column conversion puts `_` before each uppercase letter that is
\* not at position 0 and lowercases all letters: no `_` before an uppercase
\* letter at position 0.
C8_NoUnderscoreAtPositionZero ==
  (conv.stage \in {"snake", "back"} /\ ~LeftAlone(conv.input)) =>
    conv.snake = toBackingCase(conv.input)

\* a field name in camelCase: a lowercase letter, then letters and digits
IsCamelCase(s) ==
  /\ Len(s) >= 1
  /\ IsLower(s[1])
  /\ \A i \in 1..Len(s) : IsLetter(s[i]) \/ s[i] \in Digits

\* C9: a camelCase field name without underscores, converted to snake_case
\* (by the facade's column converter or by the explicit builder's) and back
\* to camelCase, is the name again.
C9_RoundTrip ==
  (conv.stage = "back" /\ IsCamelCase(conv.input)) =>
    /\ conv.camel = conv.input
    /\ conv.xcamel = conv.input

\* aB went to a_b and came back as aB
C9_Witness ==
  /\ conv.stage = "back"
  /\ conv.input = <<"a", "B">>
  /\ conv.snake = <<"a", "_", "b">>
  /\ conv.xsnake = <<"a", "_", "b">>
  /\ conv.camel = <<"a", "B">>

\* C10: every entry of a db instance's cache stays in it, mapped to the same
\* wrapper, in every step.
C10_CacheOnlyGrows ==
  [][\A d \in DBs : \A o \in DOMAIN proxyCache[d] :
       /\ o \in DOMAIN proxyCache'[d]
       /\ proxyCache'[d][o] = proxyCache[d][o]]_vars

\* a cache with two entries served a call that returned an object wrapped
\* earlier
C10_Witness ==
  /\ FacadeCall
  /\ cacheProxies[proxies[lastCall.proxy].db]
  /\ Cardinality(DOMAIN proxyCache[proxies[lastCall.proxy].db]) = 2
  /\ lastCall.ures.k = "object"
  /\ lastCall.ures.o # lastCall.uobj
  /\ lastCall.ret.p < Len(proxies)

\* the calls the handles hs received, handle after handle
RECURSIVE CallsOf(_)
CallsOf(hs) ==
  IF hs = << >> THEN << >> ELSE handles[Head(hs)].calls \o CallsOf(Tail(hs))

\* the calls chain c has made so far, as its handles are to see them
ExpectedCalls(c) ==
  [i \in 1..Len(chains[c].sent) |->
     <<chains[c].sent[i][1], processedArgs(chains[c].sent[i][2])>>]
  \o (IF chains[c].stage \in {"awaiting", "settled"} THEN <<<<"then", << >>>>>> ELSE << >>)

\* C11: two chains on different underlying handles, interleaved in any order,
\* do not interact: every handle belongs to one chain, the handles of a chain
\* received exactly that chain's calls, in its order and with its converted
\* arguments, and a settled chain holds the converted result of the terminal
\* of its own handle (a rejection: the reason that terminal rejected with).
C11_ChainsIndependent ==
  /\ \A h \in 1..Len(handles) :
        \E c \in Chains :
          /\ \E i \in 1..Len(chains[c].own) : chains[c].own[i] = h
          /\ \A d \in Chains \ {c} : \A i \in 1..Len(chains[d].own) : chains[d].own[i] # h
  /\ \A c \in Chains :
        /\ CallsOf(chains[c].own) = ExpectedCalls(c)
        /\ chains[c].stage = "settled" =>
              LET mine == handles[chains[c].own[Len(chains[c].own)]].result
              IN  /\ mine # Pending
                  /\ chains[c].outcome.k = mine.k
                  /\ mine.k = "rejected" => chains[c].outcome.v = mine.v
                  /\ mine.k = "fulfilled" =>
                        /\ chains[c].outcome.v.data =
                              IF mine.v.data = Null THEN Null
                              ELSE keysToCamelCase(mine.v.data)
                        /\ \A f \in DOMAIN mine.v \ {"data"} :
                              chains[c].outcome.v[f] = mine.v[f]

\* both chains ran to the end while the other was in flight, on one db
\* instance that caches its wrappers, and one of them resolved to rows
C11_Witness ==
  /\ cacheProxies[1]
  /\ \A c \in Chains :
        /\ chains[c].stage = "settled"
        /\ chains[c].mixed
        /\ Len(chains[c].sent) = MaxChainLen
  /\ chains[1].outcome.k = "fulfilled"
  /\ chains[1].outcome.v.data # Null
  /\ chains[2].outcome.k \in {"fulfilled", "rejected"}

\* C12: only strings go through the column conversion: a symbol given as a
\* property key is the key the underlying object is read with, a symbol
\* given as an argument (a column reference) reaches the underlying method
\* as the same symbol, and an argument that reaches it as a different
\* string was a string.
C12_SymbolsPassThrough ==
  /\ lastCall.kind = "get" /\ lastCall.prop.t = "symbol" =>
        /\ lastCall.uprop = lastCall.prop
        /\ lastCall.ret = lastCall.value
  /\ FacadeCall =>
        /\ Len(lastCall.uargs) = Len(lastCall.args)
        /\ \A i \in 1..Len(lastCall.args) :
              /\ lastCall.args[i].t = "symbol" => lastCall.uargs[i] = lastCall.args[i]
              /\ lastCall.uargs[i].t = "string" /\ lastCall.uargs[i] # lastCall.args[i] =>
                    lastCall.args[i].t = "string"

\* a method was called with a symbol as its column on a facade further down
\* a chain, and the underlying method got the symbol
C12_Witness ==
  /\ FacadeCall
  /\ lastCall.proxy > 1
  /\ lastCall.umethod = "eq"
  /\ lastCall.args[1] = Sym(c_userId)
  /\ lastCall.uargs[1] = Sym(c_userId)

\* arguments as the called method's parameters see them: an undefined at the
\* end is the same as no argument
RECURSIVE Given(_)
Given(args) ==
  IF args # << >> /\ args[Len(args)] = Undefined
  THEN Given(SubSeq(args, 1, Len(args) - 1))
  ELSE args

\* the set of calls the handles of chain c received
CallSet(c) ==
  LET got == CallsOf(chains[c].own)
  IN  { <<got[i][1], Given(got[i][2])>> : i \in 1..Len(got) }

\* the same chain was made through the facade and through the explicit
\* builder, and the underlying terminal resolved to the same envelope
SameChainResolved ==
  /\ \A c \in Chains : chains[c].stage = "settled" /\ chains[c].outcome.k = "fulfilled"
  /\ chains[1].sent = chains[2].sent
  /\ handles[chains[1].own[Len(chains[1].own)]].result =
       handles[chains[2].own[Len(chains[2].own)]].result

\* C13: a chain of select followed by filter and modifier methods with
\* simple camelCase column names, awaited, makes the facade and the explicit
\* builder issue the same set of underlying calls with the same converted
\* arguments and resolve to the same converted envelope.
C13_StrategiesAgree ==
  SameChainResolved =>
    /\ CallSet(1) = CallSet(2)
    /\ chains[1].outcome = chains[2].outcome

\* the step ev was taken for the request
Took(ev) == \E i \in 1..Len(server.trace) : server.trace[i] = ev

\* the step a was taken, and the step b after it
TookBefore(a, b) ==
  \E i, j \in 1..Len(server.trace) :
    i < j /\ server.trace[i] = a /\ server.trace[j] = b

\* a request is being handled, and not as a preflight
Handling == server.stage = "handling" /\ ~Took("preflight")

MethodAllowed == server.method \in server.config.allowedMethods

EnvComplete == \A i \in 1..Len(server.config.requiredEnvVars) :
                 server.config.requiredEnvVars[i] \in server.env

\* the callback is invoked only after the method, the environment and the
\* user were checked, in this order, and found in order
CallbackAfterChecks ==
  Took("callback") =>
    /\ MethodAllowed
    /\ EnvComplete
    /\ TookBefore("validateMethod", "validateEnvironment")
    /\ TookBefore("validateEnvironment", "callback")
    /\ server.config.authenticate =>
          /\ TookBefore("validateEnvironment", "getUser")
          /\ TookBefore("getUser", "callback")
          /\ server.auth.k = "resolved"
          /\ server.auth.error = Null
          /\ server.auth.data.user = AuthUser

\* a failed method check answers 405 and a failed environment check 500, and
\* the callback is not invoked
EarlyChecksRespond ==
  /\ Handling /\ ~MethodAllowed =>
        /\ Bodies(server.responses) =
             <<Response("server", HTTP_STATUS_METHOD_NOT_ALLOWED, m_method_not_allowed, << >>)>>
        /\ ~Took("callback")
  /\ Handling /\ MethodAllowed /\ ~EnvComplete =>
        /\ Len(server.responses) = 1
        /\ server.responses[1].status = HTTP_STATUS_INTERNAL_SERVER_ERROR
        /\ includes(server.responses[1].error, m_missing_env)
        /\ ~Took("callback")

\* C14 (as claimed): the callback is invoked only after the method, the
\* environment and (when authenticate) the user were checked in this order;
\* the first check that fails determines the response, 405, 500 and 401
\* respectively, and then the callback is never invoked.
C14_FirstFailingCheckResponds ==
  /\ CallbackAfterChecks
  /\ EarlyChecksRespond
  /\ Took("unauthorized") =>
        /\ Bodies(server.responses) =
             <<Response("server", HTTP_STATUS_UNAUTHORIZED, m_unauthorized, << >>)>>
        /\ ~Took("callback")

\* C14 (amended): as claimed, except that a failed authentication answers
\* 401 only if timeoutMs had not elapsed while getUser was pending; if it
\* had, the response is 408. The callback is not invoked in either case.
C14_ChecksBeforeCallback ==
  /\ CallbackAfterChecks
  /\ EarlyChecksRespond
  /\ Took("unauthorized") =>
        /\ Bodies(server.responses) =
             IF TookBefore("timeout", "unauthorized")
             THEN <<Response("server", HTTP_STATUS_REQUEST_TIMEOUT, m_timed_out, << >>)>>
             ELSE <<Response("server", HTTP_STATUS_UNAUTHORIZED, m_unauthorized, << >>)>>
        /\ ~Took("callback")

\* an authenticated request went through all checks, the callback was
\* invoked and its response is the response of the request
C14_Witness ==
  /\ server.stage = "handling"
  /\ server.config.authenticate
  /\ Took("callback")
  /\ server.proc.k = "resolved"
  /\ server.responses = <<server.proc.v>>
  /\ server.proc.v.origin = "callback"

\* C15: with authenticate the user in the callback's context is a defined,
\* non-null user; without authenticate getUser is never called and the
\* callback is invoked with user undefined.
C15_UserGuaranteed ==
  /\ server.stage = "handling" /\ ~server.config.authenticate =>
        /\ ~Took("getUser")
        /\ server.auth = Null
  /\ Took("callback") =>
        IF server.config.authenticate
        THEN server.user \notin {Undefined, Null} /\ server.user = server.auth.data.user
        ELSE server.user = Undefined

\* the callback was invoked without authentication and has returned
C15_Witness ==
  /\ server.stage = "handling"
  /\ ~server.config.authenticate
  /\ Took("callback")
  /\ server.user = Undefined
  /\ server.proc.k = "resolved"

\* C16: if processing has not completed when timeoutMs elapses the response
\* is 408 'Request timed out'; if the callback returns before the timer
\* fires the response is the callback's response; in either order of the
\* race there is one response, never two.
C16_TimeoutRace ==
  /\ server.stage = "handling" => Len(server.responses) <= 1
  /\ Took("timeout") /\ ~TookBefore("done", "timeout") =>
        Bodies(server.responses) =
          <<Response("server", HTTP_STATUS_REQUEST_TIMEOUT, m_timed_out, << >>)>>
  /\ Took("done") /\ ~TookBefore("timeout", "done") /\ server.proc.k = "resolved" =>
        server.responses = <<server.proc.v>>
  /\ Took("done") \/ Took("timeout") => Len(server.responses) = 1

\* the timer fired while the callback was running; the callback returned a
\* response later, which is not the response of the request
C16_Witness ==
  /\ TookBefore("callback", "timeout")
  /\ TookBefore("timeout", "done")
  /\ server.proc.k = "resolved"
  /\ server.proc.v.origin = "callback"
  /\ server.responses # <<server.proc.v>>

\* the response the claim names for a callback that failed with error
ClaimedErrorResponse(cfg, error) ==
  IF cfg.onError # "absent" /\ onError(cfg, error) # Null
  THEN Response("server", HTTP_STATUS_BAD_REQUEST, onError(cfg, error).message,
                onError(cfg, error).code)
  ELSE IF error.t = "error" /\ error.cls = "ZodError"
  THEN Response("server", HTTP_STATUS_BAD_REQUEST, m_invalid_data, m_validation_error)
  ELSE IF error.t = "error" /\ error.cls = "SyntaxError"
          /\ includes(error.message, <<"J","S","O","N">>)
  THEN Response("server", HTTP_STATUS_BAD_REQUEST, m_invalid_json, << >>)
  ELSE IF error.t = "error"
  THEN Response("server", HTTP_STATUS_INTERNAL_SERVER_ERROR, error.message, << >>)
  ELSE Response("server", HTTP_STATUS_INTERNAL_SERVER_ERROR, m_internal, << >>)

\* C17: when the callback throws or rejects with e (and the timer has not
\* fired before), the response is 400 with the custom error if onError is
\* configured and returns one for e; otherwise 400 VALIDATION_ERROR for a
\* ZodError; otherwise 400 'Invalid JSON in request body' for a SyntaxError
\* that mentions JSON; otherwise 500 with e's message for an Error, and 500
\* 'Internal server error' for anything else.
C17_CallbackErrorResponse ==
  (/\ server.stage = "handling" /\ server.thrown # Null
   /\ server.config.onError # "throws" /\ ~TookBefore("timeout", "done")) =>
    Bodies(server.responses) = <<ClaimedErrorResponse(server.config, server.thrown)>>

\* C18: with autoHandlePreflight an OPTIONS request is answered with the
\* preflight response and nothing else runs for it (no method or environment
\* validation, no timer, no client, no getUser, no callback); without
\* autoHandlePreflight an OPTIONS request goes through method validation
\* first, like any other method.
C18_PreflightFirst ==
  server.stage = "handling" /\ server.method = "OPTIONS" =>
    IF server.config.autoHandlePreflight
    THEN /\ server.trace = <<"preflight">>
         /\ server.responses = <<PreflightResponse(configHeaders(server.config))>>
         /\ server.timer = "off"
         /\ server.proc = [k |-> "none"]
    ELSE /\ ~Took("preflight")
         /\ server.trace[1] = "validateMethod"
         /\ ~MethodAllowed =>
               /\ server.trace = <<"validateMethod">>
               /\ server.responses[1].status = HTTP_STATUS_METHOD_NOT_ALLOWED
         /\ MethodAllowed => TookBefore("validateMethod", "validateEnvironment")

\* an OPTIONS request was answered as a preflight although OPTIONS is not
\* among the allowed methods and the environment is incomplete
C18_Witness ==
  /\ server.stage = "handling"
  /\ server.method = "OPTIONS"
  /\ server.config.autoHandlePreflight
  /\ "OPTIONS" \notin server.config.allowedMethods
  /\ ~EnvComplete
  /\ server.responses = <<PreflightResponse(configHeaders(server.config))>>

Settled == invocation.stage = "settled"

\* C19: whatever the underlying functions.invoke does (a result with or
\* without error, a thrown Error, a thrown non-Error), invoke resolves with
\* data or rejects with an EdgeFunctionError or its subclass
\* EdgeFunctionNoDataError, never with an error of another type.
C19_RejectsOnlyEdgeFunctionError ==
  Settled =>
    \/ invocation.outcome.k = "resolved"
    \/ invocation.outcome.k = "rejected" /\ isEdgeFunctionError(invocation.outcome.v)

\* the underlying invoke threw something that is not an Error and invoke
\* rejected with an EdgeFunctionError that names the function
C19_Witness ==
  /\ Settled
  /\ invocation.underlying = Rejected(Str(m_string_error))
  /\ invocation.outcome.k = "rejected"
  /\ invocation.outcome.v.cls = "EdgeFunctionError"
  /\ invocation.outcome.v.functionName = invocation.functionName

\* C20: when the underlying call reports no error and no data, invoke
\* rejects with EdgeFunctionNoDataError; and whenever invoke resolves, the
\* value is neither null nor undefined, also when it was unwrapped from a
\* { data, message } envelope.
C20_NeverResolvesEmpty ==
  /\ Settled /\ invocation.underlying.k = "resolved"
       /\ invocation.underlying.v \notin {Null, Undefined}
       /\ invocation.underlying.v.error \in {Null, Undefined}
       /\ invocation.underlying.v.data \in {Null, Undefined} =>
         /\ invocation.outcome.k = "rejected"
         /\ invocation.outcome.v = EdgeFunctionNoDataError(invocation.functionName)
  /\ Settled /\ invocation.outcome.k = "resolved" =>
         invocation.outcome.v \notin {Null, Undefined}

\* the callbacks of the given name that handleInvoke has called
CalledWith(name) ==
  {handling.called[i][2] : i \in {j \in 1..Len(handling.called) : handling.called[j][1] = name}}

\* C21: handleInvoke takes one outcome path per call: invokeCall resolved
\* means onSuccess is called with the data and onError is not called;
\* invokeCall rejected with an EdgeFunctionError means onError is called with
\* it and onSuccess is not; another exception is re-thrown to the caller and
\* onError is not called.
C21_OneOutcomePath ==
  /\ handling.stage # "idle" => Len(handling.called) <= 1
  /\ handling.stage # "idle" /\ handling.invoked.k = "resolved" =>
       /\ handling.called[1] = <<"onSuccess", handling.invoked.v>>
       /\ CalledWith("onError") = {}
  /\ handling.stage # "idle" /\ handling.invoked.k = "rejected" =>
       IF isEdgeFunctionError(handling.invoked.v)
       THEN handling.called = <<<<"onError", handling.invoked.v>>>>
       ELSE /\ handling.called = << >>
            /\ handling.outcome = Rejected(handling.invoked.v)

\* C22: every path that an operation of the manager passes to the storage
\* API begins with the id of the user that getUser returned for it followed
\* by '/', or is that id itself in a list call; and a storage call is only
\* issued after getUser has returned a user without error.
C22_PathsInUserFolder ==
  storage.stage # "idle" =>
    \A i \in 1..Len(storage.calls) :
      LET call == storage.calls[i]
      IN  /\ call.auth.k = "resolved"
          /\ call.auth.error = Null
          /\ call.auth.user # Null
          /\ Len(call.paths) >= 1
          /\ \A j \in 1..Len(call.paths) :
               \/ startsWith(call.paths[j], call.auth.user.id \o <<"/">>)
               \/ call.method = "list" /\ call.paths[j] = call.auth.user.id

\* two uploads of one uploadMultipleFiles call went to the storage API for
\* two different users, with a sub-path that names the parent folder
C22_Witness ==
  /\ storage.stage = "settled"
  /\ Len(storage.calls) = 2
  /\ storage.op.name = "uploadMultipleFiles"
  /\ storage.op.p[1] = p_up_f
  /\ storage.calls[1].auth.user.id = u_1
  /\ storage.calls[2].auth.user.id = u_10
  /\ storage.calls[2].paths = <<u_10 \o <<"/">> \o p_up_f \o <<"/">> \o p_d_f>>

\* the calls for identifier that returned true at a time in lo..hi
AllowedIn(identifier, lo, hi) ==
  {i \in 1..Len(limiter.log) :
     /\ limiter.log[i].identifier = identifier
     /\ limiter.log[i].allowed
     /\ limiter.log[i].time >= lo
     /\ limiter.log[i].time <= hi}

\* every answer is the one that the identifier's own earlier calls give:
\* true iff fewer than maxRequests of its allowed calls are less than
\* windowMs old
OwnHistoryDecides ==
  \A i \in 1..Len(limiter.log) :
    limiter.log[i].allowed <=>
      Cardinality({j \in AllowedIn(limiter.log[i].identifier,
                                   limiter.log[i].time - limiter.windowMs + 1,
                                   limiter.log[i].time) : j < i}) < limiter.maxRequests

\* C23 (as claimed): for each identifier, the calls that returned true within
\* any time window of length windowMs, a window [t, t + windowMs] included,
\* never number more than maxRequests; and calls for one identifier never
\* change the result for another.
C23_AtMostMaxPerWindow ==
  /\ \A identifier \in Identifiers : \A t \in 0..MaxTime :
       Cardinality(AllowedIn(identifier, t, t + limiter.windowMs)) <= limiter.maxRequests
  /\ OwnHistoryDecides

\* C23 (amended): for each identifier, the calls that returned true within
\* any window of windowMs milliseconds that is open on one side,
\* (t - windowMs, t], never number more than maxRequests; and calls for one
\* identifier never change the result for another.
C23_AtMostMaxPerOpenWindow ==
  /\ \A identifier \in Identifiers : \A t \in 0..MaxTime :
       Cardinality(AllowedIn(identifier, t - limiter.windowMs + 1, t)) <= limiter.maxRequests
  /\ OwnHistoryDecides

\* user1 was refused at a time at which user2, with fewer calls, was allowed
C23_Witness ==
  \E i, j \in 1..Len(limiter.log) :
    /\ limiter.log[i].time = limiter.log[j].time
    /\ limiter.log[i].identifier = "user1" /\ ~limiter.log[i].allowed
    /\ limiter.log[j].identifier = "user2" /\ limiter.log[j].allowed
    /\ i < j

\* the latest call of isAllowed
LastAnswer == limiter.log[Len(limiter.log)]

\* C26: a call of isAllowed that returns false leaves the stored timestamps
\* of every identifier as they were; denied attempts therefore do not count,
\* and an identifier is allowed again as soon as fewer than maxRequests of
\* its allowed calls are less than windowMs old.
C26_DeniedRecordsNothing ==
  /\ [][limiter'.log # limiter.log /\ ~limiter'.log[Len(limiter'.log)].allowed
          => limiter'.requests = limiter.requests]_vars
  /\ [](\A i \in 1..Len(limiter.log) :
          limiter.log[i].allowed <=>
            Cardinality({j \in 1..(i - 1) :
                           /\ limiter.log[j].identifier = limiter.log[i].identifier
                           /\ limiter.log[j].allowed
                           /\ limiter.log[j].time > limiter.log[i].time - limiter.windowMs})
              < limiter.maxRequests)

\* user1 was allowed, then refused twice, and allowed again exactly windowMs
\* after the allowed call
C26_Witness ==
  /\ Len(limiter.log) = 4
  /\ \A i \in 1..4 : limiter.log[i].identifier = "user1"
  /\ limiter.log[1].allowed /\ ~limiter.log[2].allowed /\ ~limiter.log[3].allowed
  /\ limiter.log[3].time > limiter.log[1].time
  /\ LastAnswer.allowed
  /\ LastAnswer.time = limiter.log[1].time + limiter.windowMs

\* the underlying terminal operation of chain c has rejected
TerminalRejected(c) ==
  /\ chains[c].own # << >>
  /\ handles[chains[c].own[1]].result.k = "rejected"

\* C24: in the explicit builder, when the underlying terminal operation
\* (select, update or delete) rejects with reason r, the await of the builder
\* eventually settles, and it settles by rejecting with r.
C24_ExplicitRejectionPropagates ==
  \A c \in Chains :
    TerminalRejected(c)
      ~> (/\ TerminalRejected(c)
          /\ chains[c].outcome = [k |-> "rejected",
                                  v |-> handles[chains[c].own[1]].result.v])

\* the calls that the table handle of chain c has received
Forwarded(c) == handles[chains[c].own[1]].calls

\* C29: in the explicit builder every filter or modifier call of a chain is
\* forwarded, in order and with converted columns, to the single table handle
\* that `from` obtained for the chain; the terminal operation (select, update
\* or delete) is issued on that same handle only when the builder is awaited,
\* after all the filter calls, and exactly once per await.
C29_ForwardedToOneHandle ==
  \A c \in Chains :
    chains[c].own # << >> =>
      LET sent == chains[c].sent
          n == IF sent = << >> THEN 0 ELSE Len(sent) - 1
      IN  /\ Len(chains[c].own) = 1
          /\ \A d \in Chains \ {c} : chains[d].own # chains[c].own
          /\ Len(Forwarded(c)) = n + 2 * chains[c].awaited
          /\ \A i \in 1..n :
               Forwarded(c)[i] = <<sent[i + 1][1], filterArgs(sent[i + 1][1], sent[i + 1][2])>>
          /\ \A j \in 1..chains[c].awaited :
               /\ Forwarded(c)[n + 2 * j - 1] = terminalCall(sent[1])
               /\ Forwarded(c)[n + 2 * j] = <<"then", << >>>>

\* a chain with a forwarded filter has been awaited twice, and the other
\* chain has a forwarded filter as well
C29_Witness ==
  \E c \in Chains :
    /\ chains[c].awaited = 2
    /\ Len(chains[c].sent) >= 2
    /\ \E d \in Chains \ {c} : Len(chains[d].sent) >= 2 /\ chains[d].awaited >= 1

\* C25: every error response that createServer generates itself (405, 500 for
\* missing environment variables, 401, 408, 400 for validation, JSON and
\* custom errors, 500 for unhandled errors) is created with the merged
\* config.headers: the defaults, Access-Control-Allow-Methods built from
\* allowedMethods plus OPTIONS, overridden by the caller's headers.
C25_ErrorResponsesCarryConfigHeaders ==
  \A i \in 1..Len(server.responses) :
    server.responses[i].origin = "server" =>
      server.responses[i].headers = responseHeaders(configHeaders(server.config))

\* C28: createServer produces a 408 response only for a request whose timer
\* fired before its processing finished; an error thrown by the callback, by
\* client creation or by a configured onError is never reported as 408,
\* whatever its message.
C28_TimeoutOnlyWhenTimerFired ==
  \A i \in 1..Len(server.responses) :
    (/\ server.responses[i].origin = "server"
     /\ server.responses[i].status = HTTP_STATUS_REQUEST_TIMEOUT) =>
      /\ Took("timeout")
      /\ Took("done") => TookBefore("timeout", "done")

\* C27: for any request and any callback behaviour (returns a response,
\* throws, rejects, or never settles), with a finite timeoutMs the handler
\* eventually resolves with one response, and that response stays its result.
C27_HandlerResolves ==
  /\ (server.stage = "handling") ~> (Len(server.responses) = 1)
  /\ [][Len(server.responses) = 1 => server.responses' = server.responses]_vars

\* the callback was called and has never settled; the timer fired and the
\* handler has resolved
C27_Witness ==
  /\ server.stage = "handling"
  /\ server.proc.k = "callback"
  /\ server.timer = "fired"
  /\ Len(server.responses) = 1

\* C30: every wrapper that the dynamic facade creates, with or without
\* caching, has a raw underlying object as its target and never another
\* wrapper; so a call on any wrapper of a chain passes one layer: its
\* arguments reach the raw object converted exactly once, an object it
\* returns comes back in a wrapper, and the envelope an await resolves with
\* is transformed exactly once.
C30_WrappersTargetRaw ==
  /\ \A p \in 1..Len(proxies) : proxies[p].target.k = "raw"
  /\ (IF lastCall.kind = "call" THEN lastCall.phase = "done" ELSE FALSE) =>
       /\ lastCall.n = 1
       /\ lastCall.under.obj = proxies[lastCall.on].target.i
       /\ IF lastCall.method = "then"
          THEN lastCall.value = transformedResult(lastCall.under.result)
          ELSE /\ lastCall.under.args = processedArgs(lastCall.given)
               /\ lastCall.value.k = "wrapper"
               /\ proxies[lastCall.value.i].target.k = "raw"

\* eq('userId', 1) on a wrapper that an earlier call of the chain returned
\* reached the raw object as eq('user_id', 1), the raw method returned `this`
\* and the caller got a wrapper of that raw object
C30_Witness ==
  /\ (IF lastCall.kind = "call" THEN lastCall.phase = "done" ELSE FALSE)
  /\ lastCall.method = "eq"
  /\ lastCall.on > 1
  /\ lastCall.under.args = <<Str(s_user_id), Num(1)>>
  /\ lastCall.value.k = "wrapper"
  /\ proxies[lastCall.value.i].target = Raw(lastCall.under.obj)
  /\ \E db \in DBs : ~cacheProxies[db] /\ proxies[lastCall.on].db = db

====
